---- MODULE Spec2Model ----
(***************************************************************************)
(* QAintell: the tool orchestrator (planning, execution, retries), the     *)
(* processing pipeline and the memory-tier cache, as state machines.       *)
(***************************************************************************)
EXTENDS Integers, Sequences, FiniteSets, TLC

VARIABLES
    \* ---- execution planning (tools/tool_orchestrator.py, tools/tool_registry.py)
    registered,          \* ToolRegistry._tools: names of the registered tools
    tool_requirements,   \* the requested tool names, in request order
    parallel_groups,     \* result of generate_execution_plan, None before it ran
    plan_pc,             \* "request" | "planned"
    \* ---- plan execution (IntelligentToolOrchestrator.execute_plan)
    orch_pc,             \* "idle" | "gather" | "retry" | "done"
    orch_question,       \* the question the tool parameters are generated from
    plan_stages,         \* execution_plan.stages: a list of lists of tool names
    stage_idx,           \* index of the stage execute_plan is working on
    task_status,         \* ToolTask.status of each tool's task
    task_error,          \* ToolTask.error
    task_return,         \* what the task's _execute_tool_task coroutine returned
    failed_tasks,        \* _handle_failed_tasks: the tasks still to be handled
    attempt,             \* _retry_tool_task: the loop variable
    retry_results,       \* _handle_failed_tasks: its retry_results dict
    results,             \* execute_plan: its results dict
    total_executions,    \* ToolRegistry._tool_performance[name]["total_executions"]
    error_count,         \* ToolRegistry._tool_performance[name]["error_count"]
    execute_calls,       \* history: calls of tool.execute, per tool
    attempts,            \* history: attempts to run the tool, first and retries
    settled,             \* history: "open", or how the tool's last attempt of the plan ended
    \* ---- the processing pipeline (core/pipeline.py, PipelineState)
    pipe_pc,             \* "idle" | "stages" | "done": where execute_pipeline is
    question,            \* PipelineState.question: a string, or NotAString
    route_stages,        \* route_config['stages']
    stage_pos,           \* position of the for loop in route_stages
    processed_question,  \* PipelineState.processed_question
    response,            \* PipelineState.response
    confidence,          \* PipelineState.confidence, a fraction <<num, den>>
    validation_results,  \* PipelineState.validation_results
    errors,              \* PipelineState.errors
    pipeline_result,     \* the ProcessingResult execute_pipeline returned
    ran,                 \* history: the stages whose process was called
    raised_at,           \* history: position of the stage that raised, or 0
    \* ---- the memory-tier cache (utils/cache_manager.py, MemoryCache)
    cache_pc,            \* "on" once the cache is constructed
    max_size,            \* MemoryCache.max_size
    cache,               \* MemoryCache.cache: key -> value
    access_times,        \* MemoryCache.access_times: key -> time
    access_order,        \* the keys of access_times in dict (insertion) order
    expiry_times,        \* MemoryCache.expiry_times: key -> time
    now,                 \* time.time()
    ops,                 \* calls made so far
    named,               \* how many of the keys the caller has used so far
    set_log,             \* history: the sets made while only sets were made
    scenario,            \* history: "sets" | "gets" | "other"
    \* ---- the two-tier cache (utils/cache_manager.py, CacheManager)
    mgr_pc,              \* "on" once the CacheManager is constructed
    memory_tier,         \* cache_levels['memory']: the MemoryCache's dicts
    persistent_tier,     \* cache_levels['persistent']: the PersistentCache's dicts
    hit_count,           \* CacheManager.hit_count
    miss_count,          \* CacheManager.miss_count
    mgr_now,             \* time.time()
    mgr_ops,             \* calls made so far
    last_get,            \* history: the last get call, what it found and did
    last_set,            \* history: key -> the value, time and ttl of its latest set
    \* ---- resource accounting (utils/metrics.py, ResourceManager)
    res_pc,              \* "on" once the ResourceManager is constructed
    current_usage,       \* ResourceManager.current_usage
    last_call,           \* history: the last call, the usage before it, its answer
    \* ---- routing and scheduling (core/router.py, core/scheduler.py)
    sched_pc,            \* where process_question is; "router" when the engine is used alone
    route_templates,     \* IntelligentRoutingEngine.route_templates
    stage_lists,         \* the list objects routes hold as stages, by name
    contexts,            \* the dict objects routes hold as context, by name: their keys
    classification,      \* the classification result of the question
    processing_route,    \* the route create_processing_pipeline returned
    initial_result,      \* process_question: initial_result
    improvement_action,  \* validation_result.improvement_action
    final_result,        \* process_question: what it returns
    raised_in,           \* history: the step that raised, or None
    route_before,        \* history: the route as _improve_response found it
    improved,            \* history: _improve_response ran on the route
    asked_question,      \* the question text process_question was called with
    pipeline_question,   \* history: the question of the last execute_pipeline call
    \* ---- the interactive loop (main.py)
    main_pc,             \* where main() is: prompt, process, print, farewell, exited
    turns,               \* history: the finished turns of the loop, in order
    turn,                \* the turn in progress: the line, the outcome, what was printed
    \* ---- a ValidationResult (data/data_structures.py)
    vr_checks,           \* ValidationResult.checks: check name -> score, in tenths
    vr_overall_score,    \* ValidationResult.overall_score: the sum, the count, the rounding
    vr_status,           \* ValidationResult.status
    vr_added,            \* history: the last add_check call, its name and score
    \* ---- the ensemble coordinator (models/ensemble_coordinator.py)
    ens_call,            \* the last coordinate_responses call: responses and strategy
    ens_returned,        \* the dict it returned: its keys, and the coordination metadata
    \* ---- the model selector (models/model_selector.py)
    model_availability,  \* ModelSelector.model_availability: model name -> flag
    sel_call,            \* history: the last selection call and its arguments
    sel_returned,        \* history: the model name it returned
    \* ---- the tool registry's dependencies and performance (tools/tool_registry.py)
    reg_tools,           \* ToolRegistry._tools: the registered tool names
    tool_dependencies,   \* ToolRegistry._tool_dependencies: name -> declared list
    tool_performance,    \* ToolRegistry._tool_performance: name -> record
    perf_log,            \* history: name -> the calls since its tracking began
    order_call,          \* history: the tool_names of the last get_optimal_tool_order
    order_returned,      \* history: what that call returned
    \* ---- execution results and their integration (tools/tool_orchestrator.py)
    integ_pc,            \* "collect" while execute_plan runs, "done" once integrated
    execution_results,   \* the results dict of execute_plan: tool -> returned record
    integrated,          \* history: what integrate_tool_results returned
    \* ---- the performance monitor (utils/metrics.py)
    monitoring_active,   \* RealTimePerformanceMonitor.monitoring_active
    loops,               \* the tasks start_monitoring created: where each one is
    current_status       \* RealTimePerformanceMonitor.current_status: who wrote it last

planVars == <<registered, tool_requirements, parallel_groups, plan_pc>>

orchVars == <<orch_pc, orch_question, plan_stages, stage_idx, task_status, task_error,
              task_return, failed_tasks, attempt, retry_results, results,
              total_executions, error_count, execute_calls, attempts, settled>>

pipeVars == <<pipe_pc, question, route_stages, stage_pos, processed_question, response,
              confidence, validation_results, errors, pipeline_result, ran, raised_at>>

cacheVars == <<cache_pc, max_size, cache, access_times, access_order, expiry_times, now,
               ops, named, set_log, scenario>>

mgrVars == <<mgr_pc, memory_tier, persistent_tier, hit_count, miss_count, mgr_now,
             mgr_ops, last_get, last_set>>

resVars == <<res_pc, current_usage, last_call>>

schedVars == <<sched_pc, route_templates, stage_lists, contexts, classification,
               processing_route, initial_result, improvement_action, final_result,
               raised_in, route_before, improved,
              asked_question, pipeline_question>>

mainVars == <<main_pc, turns, turn>>

vrVars == <<vr_checks, vr_overall_score, vr_status, vr_added>>

ensVars == <<ens_call, ens_returned>>

selVars == <<model_availability, sel_call, sel_returned>>

regVars == <<reg_tools, tool_dependencies, tool_performance, perf_log, order_call,
             order_returned>>

integVars == <<integ_pc, execution_results, integrated>>

monVars == <<monitoring_active, loops, current_status>>

vars == <<planVars, orchVars, pipeVars, cacheVars, mgrVars, resVars, schedVars,
          mainVars, vrVars, ensVars, selVars, regVars, integVars, monVars>>

\* what the actions of one component leave alone
planRest == <<orchVars, pipeVars, cacheVars, mgrVars, resVars, schedVars, mainVars,
              vrVars, ensVars, selVars, regVars, integVars, monVars>>

orchRest == <<planVars, pipeVars, cacheVars, mgrVars, resVars, schedVars, mainVars,
              vrVars, ensVars, selVars, regVars, integVars, monVars>>

pipeRest == <<planVars, orchVars, cacheVars, mgrVars, resVars, schedVars, mainVars,
              vrVars, ensVars, selVars, regVars, integVars, monVars>>

cacheRest == <<planVars, orchVars, pipeVars, mgrVars, resVars, schedVars, mainVars,
               vrVars, ensVars, selVars, regVars, integVars, monVars>>

mgrRest == <<planVars, orchVars, pipeVars, cacheVars, resVars, schedVars, mainVars,
             vrVars, ensVars, selVars, regVars, integVars, monVars>>

resRest == <<planVars, orchVars, pipeVars, cacheVars, mgrVars, schedVars, mainVars,
             vrVars, ensVars, selVars, regVars, integVars, monVars>>

schedRest == <<planVars, orchVars, pipeVars, cacheVars, mgrVars, resVars, mainVars,
               vrVars, ensVars, selVars, regVars, integVars, monVars>>

mainRest == <<planVars, orchVars, pipeVars, cacheVars, mgrVars, resVars, schedVars,
              vrVars, ensVars, selVars, regVars, integVars, monVars>>

vrRest == <<planVars, orchVars, pipeVars, cacheVars, mgrVars, resVars, schedVars,
            mainVars, ensVars, selVars, regVars, integVars, monVars>>

ensRest == <<planVars, orchVars, pipeVars, cacheVars, mgrVars, resVars, schedVars,
             mainVars, vrVars, selVars, regVars, integVars, monVars>>

selRest == <<planVars, orchVars, pipeVars, cacheVars, mgrVars, resVars, schedVars,
             mainVars, vrVars, ensVars, regVars, integVars, monVars>>

regRest == <<planVars, orchVars, pipeVars, cacheVars, mgrVars, resVars, schedVars,
             mainVars, vrVars, ensVars, selVars, integVars, monVars>>

integRest == <<planVars, orchVars, pipeVars, cacheVars, mgrVars, resVars, schedVars,
               mainVars, vrVars, ensVars, selVars, regVars, monVars>>

monRest == <<planVars, orchVars, pipeVars, cacheVars, mgrVars, resVars, schedVars,
             mainVars, vrVars, ensVars, selVars, regVars, integVars>>

None == "None"

\* ------------------------------------------------------------------ bounds

MaxRequests == 4

MaxStages == 3

MaxQuestionLen == 2

MaxCacheSize == 2

MaxTime == 2

MaxOps == 4

\* the largest amount of a resource one call asks for or gives back
MaxAmount == 3

\* the default_ttl the cache is constructed with
DefaultTTL == 1

\* ------------------------------------------------------------- sequences

SeqToSet(s) == {s[i] : i \in DOMAIN s}

Contains(s, x) == \E i \in DOMAIN s : s[i] = x

IndexOf(s, x) == CHOOSE i \in DOMAIN s : s[i] = x /\ \A j \in 1..(i - 1) : s[j] # x

RemoveName(s, x) == SelectSeq(s, LAMBDA y : y # x)

\* dict insertion order of a sequence of keys: first occurrences only
RECURSIVE DictKeys(_, _)
DictKeys(s, acc) ==
    IF s = <<>> THEN acc
    ELSE DictKeys(Tail(s), IF Contains(acc, Head(s)) THEN acc ELSE Append(acc, Head(s)))

\* ------------------------------------------------------------ tool names

DefaultTools == {"web_search", "rag_retrieval", "calculator", "translator"}

ExtraTools == {"data_analyzer", "code_executor"}

ToolNames == DefaultTools \cup ExtraTools

\* ToolDependencyAnalyzer.analyze_input_dependencies: dependency_rules.get(name, [])
analyze_input_dependencies(name) ==
    CASE name = "calculator"    -> {"web_search", "rag_retrieval"}
      [] name = "data_analyzer" -> {"web_search", "rag_retrieval", "file_manager"}
      [] name = "code_executor" -> {"rag_retrieval"}
      [] OTHER                  -> {}

max_parallel_tools == 3

\* analyze_tool_dependencies: one graph node per requested tool the registry
\* knows, in dict (first insertion) order
GraphNodes(reg, reqs) == DictKeys(SelectSeq(reqs, LAMBDA n : n \in reg), <<>>)

\* ---------------------------------------------- ToolDependencyGraph.topological_sort

\* the `for tool_name in ready` loop: append, delete the node, drop it from
\* every remaining dependency list
RECURSIVE TopoReady(_, _, _, _)
TopoReady(ready, result, order, deps) ==
    IF ready = <<>> THEN <<result, order, deps>>
    ELSE LET t == Head(ready) IN
         TopoReady(Tail(ready), Append(result, t), RemoveName(order, t),
                   [n \in DOMAIN deps |-> deps[n] \ {t}])

\* the `while temp_graph` loop
RECURSIVE TopoLoop(_, _, _)
TopoLoop(result, order, deps) ==
    IF order = <<>> THEN result
    ELSE LET ready == SelectSeq(order, LAMBDA n : deps[n] = {}) IN
         IF ready = <<>> THEN result \o order
         ELSE LET r == TopoReady(ready, result, order, deps) IN
              TopoLoop(r[1], r[2], r[3])

topological_sort(nodes) ==
    TopoLoop(<<>>, nodes, [n \in SeqToSet(nodes) |-> analyze_input_dependencies(n)])

\* ---------------------------------------------- _identify_parallel_groups

DependenciesSatisfiedAlways(tool_name, remaining_tools) == TRUE

\* all(dep not in remaining_tools for dep in tool_node['input_deps'])
DependenciesSatisfied(tool_name, remaining_tools) ==
    \A dep \in analyze_input_dependencies(tool_name) : ~Contains(remaining_tools, dep)

\* the `for tool_name in remaining_tools` loop building current_group
RECURSIVE GroupScan(_, _, _)
GroupScan(todo, remaining_tools, current_group) ==
    IF todo = <<>> THEN current_group
    ELSE LET t == Head(todo) IN
         GroupScan(Tail(todo), remaining_tools,
                   IF DependenciesSatisfied(t, remaining_tools)
                      /\ Len(current_group) < max_parallel_tools
                   THEN Append(current_group, t)
                   ELSE current_group)

\* the `while remaining_tools` loop
RECURSIVE GroupLoop(_, _)
GroupLoop(groups, remaining_tools) ==
    IF remaining_tools = <<>> THEN groups
    ELSE LET scanned == GroupScan(remaining_tools, remaining_tools, <<>>)
             current_group == IF scanned = <<>> THEN <<Head(remaining_tools)>> ELSE scanned
         IN GroupLoop(Append(groups, current_group),
                      SelectSeq(remaining_tools, LAMBDA n : ~Contains(current_group, n)))

identify_parallel_groups(execution_order) == GroupLoop(<<>>, execution_order)

\* generate_execution_plan: the stages of the plan, each a list of tool names
generate_execution_plan(reg, reqs) ==
    identify_parallel_groups(topological_sort(GraphNodes(reg, reqs)))

\* ------------------------------------------------------- planning actions

PlanIdle ==
    /\ registered = DefaultTools
    /\ tool_requirements = <<>>
    /\ parallel_groups = None
    /\ plan_pc = "idle"

PlanInit ==
    /\ registered = DefaultTools
    /\ tool_requirements = <<>>
    /\ parallel_groups = None
    /\ plan_pc = "request"

\* ToolRegistry.register_tool
register_tool(t) ==
    /\ plan_pc = "request"
    /\ tool_requirements = <<>>
    /\ t \in ExtraTools \ registered
    /\ registered' = registered \cup {t}
    /\ UNCHANGED <<tool_requirements, parallel_groups, plan_pc, planRest>>

\* one more entry of the tool_requirements list handed to orchestrate_tools
AddRequirement(t) ==
    /\ plan_pc = "request"
    /\ Len(tool_requirements) < MaxRequests
    /\ tool_requirements' = Append(tool_requirements, t)
    /\ UNCHANGED <<registered, parallel_groups, plan_pc, planRest>>

\* analyze_tool_dependencies + generate_execution_plan
GeneratePlan ==
    /\ plan_pc = "request"
    /\ parallel_groups' = generate_execution_plan(registered, tool_requirements)
    /\ plan_pc' = "planned"
    /\ UNCHANGED <<registered, tool_requirements, planRest>>

PlanNext ==
    \/ \E t \in ExtraTools : register_tool(t)
    \/ \E t \in ToolNames : AddRequirement(t)
    \/ GeneratePlan


\* ------------------------------------------------------ texts, as characters

\* the characters that matter to strip, endswith('.') and len: a space, an
\* ASCII full stop, the ideographic full stop, any other character
Chars == {"x", " ", "."}

FullStop == "ideographic full stop"

Repeat(c, n) == [i \in 1..n |-> c]

RECURSIVE LStrip(_)
LStrip(s) == IF s # <<>> /\ Head(s) = " " THEN LStrip(Tail(s)) ELSE s

RECURSIVE RStrip(_)
RStrip(s) ==
    IF s # <<>> /\ s[Len(s)] = " " THEN RStrip(SubSeq(s, 1, Len(s) - 1)) ELSE s

\* str.strip
Strip(s) == RStrip(LStrip(s))

RECURSIVE Texts(_)
Texts(n) ==
    IF n = 0 THEN {<<>>}
    ELSE LET shorter == Texts(n - 1) IN
         shorter \cup {Append(s, c) : s \in {x \in shorter : Len(x) = n - 1}, c \in Chars}

\* a question that is no str (None)
NotAString == <<"not a str">>

Questions == Texts(MaxQuestionLen) \cup {NotAString}

\* ------------------------------------------------------------- the stages

\* the processors with the two stages _improve_response appends among them
StageProcessorsWithImprovementStages ==
    {"preprocessing", "knowledge_retrieval", "multi_source_retrieval",
     "tool_orchestration", "tool_planning", "tool_execution", "reasoning",
     "simple_reasoning", "advanced_reasoning", "result_integration", "validation",
     "basic_validation", "multi_stage_validation", "fact_checking",
     "expert_validation", "postprocessing", "additional_fact_check",
     "information_gathering"}

\* the keys of AdvancedProcessingPipeline.stage_processors
stage_processors ==
    {"preprocessing", "knowledge_retrieval", "multi_source_retrieval",
     "tool_orchestration", "tool_planning", "tool_execution", "reasoning",
     "simple_reasoning", "advanced_reasoning", "result_integration", "validation",
     "basic_validation", "multi_stage_validation", "fact_checking",
     "expert_validation", "postprocessing"}

\* the stage names routes are drawn from: the stages that call no tool and no
\* retrieval, and a name stage_processors does not hold
StageNames ==
    {"preprocessing", "simple_reasoning", "advanced_reasoning", "basic_validation",
     "multi_stage_validation", "postprocessing", "invalid_stage"}

RECURSIVE Routes(_)
Routes(n) ==
    IF n = 0 THEN {<<>>}
    ELSE LET shorter == Routes(n - 1) IN
         shorter \cup {Append(s, c) : s \in {x \in shorter : Len(x) = n - 1},
                                      c \in StageNames}

\* f"基于简单推理的回答: {...}": 11 characters, the last one a space
SimplePrefix == Repeat("x", 10) \o <<" ">>

\* f"高级多步推理结果: {...}": 10 characters, the last one a space
AdvancedPrefix == Repeat("x", 9) \o <<" ">>

\* f"处理过程中出现错误: {str(error)}"
FailureResponse == Repeat("x", 10) \o <<" ", "x">>

\* str(error) of the AttributeError of None.strip()
ExceptionText == "'NoneType' object has no attribute 'strip'"

Zero == <<0, 1>>

Positive(c) == c[1] > 0

\* PipelineState.set_confidence of confidence * score, score = passed / checks
\* (never above 1.0: both factors are at most 1)
Scaled(c, passed, checks) == <<c[1] * passed, c[2] * checks>>

NoChecks == [check \in {} |-> TRUE]

\* PipelineState.add_validation_result
add_validation_result(vr, check, value) ==
    [c \in DOMAIN vr \cup {check} |-> IF c = check THEN value ELSE vr[c]]

\* PostprocessingStage._format_response
format_response(r) ==
    LET stripped == Strip(r) IN
    IF stripped # <<>> /\ stripped[Len(stripped)] = "."
    THEN stripped
    ELSE Append(stripped, FullStop)

\* PostprocessingStage._calculate_final_confidence
calculate_final_confidence(c, vr) ==
    IF DOMAIN vr = {} THEN c
    ELSE Scaled(c, Cardinality({k \in DOMAIN vr : vr[k]}), Cardinality(DOMAIN vr))

\* whether the stage's process raises in the state it is called in
StageRaises(stage) == stage = "preprocessing" /\ question = NotAString

\* process of each stage: the PipelineState fields it assigns
StageProcess(stage) ==
    CASE stage = "preprocessing" ->
            /\ processed_question' = Strip(question)
            /\ UNCHANGED <<response, confidence, validation_results>>
      [] stage = "simple_reasoning" ->
            /\ response' = SimplePrefix \o processed_question
            /\ confidence' = <<7, 10>>
            /\ UNCHANGED <<processed_question, validation_results>>
      [] stage = "advanced_reasoning" ->
            /\ response' = AdvancedPrefix \o processed_question
            /\ confidence' = <<9, 10>>
            /\ UNCHANGED <<processed_question, validation_results>>
      [] stage = "basic_validation" ->
            /\ validation_results' =
                   add_validation_result(validation_results, "basic_check",
                                         response # <<>> /\ Len(response) > 10)
            /\ UNCHANGED <<processed_question, response, confidence>>
      [] stage = "multi_stage_validation" ->
            /\ validation_results' =
                   add_validation_result(
                       add_validation_result(
                           add_validation_result(validation_results,
                                                 "_validate_accuracy", TRUE),
                           "_validate_completeness", Len(response) > 50),
                       "_validate_consistency", TRUE)
            /\ UNCHANGED <<processed_question, response, confidence>>
      [] stage = "postprocessing" ->
            /\ response' = IF response # <<>> THEN format_response(response) ELSE response
            /\ confidence' = calculate_final_confidence(confidence, validation_results)
            /\ UNCHANGED <<processed_question, validation_results>>

NoResult ==
    [response |-> <<>>, confidence |-> Zero, success |-> FALSE, errors |-> <<>>,
     error |-> None, returned |-> FALSE]

FinalSuccessInverted(errs, resp) == Len(errs) > 0 /\ resp # <<>>

\* get_final_result: success=len(self.errors) == 0 and bool(self.response)
FinalSuccess(errs, resp) == Len(errs) = 0 /\ resp # <<>>

\* PipelineState.get_final_result; the error field keeps its default
get_final_result ==
    [response |-> response, confidence |-> confidence,
     success |-> FinalSuccess(errors, response), errors |-> errors,
     error |-> None, returned |-> TRUE]

FailureKeepsConfidence(c) == c

\* _handle_pipeline_failure: result.confidence = 0.0
FailureConfidence(c) == Zero

\* AdvancedProcessingPipeline._handle_pipeline_failure
handle_pipeline_failure ==
    [response |-> FailureResponse, confidence |-> FailureConfidence(confidence),
     success |-> FALSE, errors |-> <<>>, error |-> ExceptionText, returned |-> TRUE]

UnknownStageBreaks(pos) == Len(route_stages) + 1

\* the for loop goes on after pipeline_state.add_error
AfterUnknownStage(pos) == pos + 1

\* ------------------------------------------------- execute_pipeline, actions

PipeIdle ==
    /\ pipe_pc = "off"
    /\ question = <<>>
    /\ route_stages = <<>>
    /\ stage_pos = 0
    /\ processed_question = <<>>
    /\ response = <<>>
    /\ confidence = Zero
    /\ validation_results = NoChecks
    /\ errors = <<>>
    /\ pipeline_result = NoResult
    /\ ran = <<>>
    /\ raised_at = 0

PipeInit ==
    /\ pipe_pc = "idle"
    /\ question = <<>>
    /\ route_stages = <<>>
    /\ stage_pos = 0
    /\ processed_question = <<>>
    /\ response = <<>>
    /\ confidence = Zero
    /\ validation_results = NoChecks
    /\ errors = <<>>
    /\ pipeline_result = NoResult
    /\ ran = <<>>
    /\ raised_at = 0

\* execute_pipeline up to its for loop: pipeline_state = PipelineState(...)
execute_pipeline(q, stages) ==
    /\ pipe_pc = "idle"
    /\ question' = q
    /\ route_stages' = stages
    /\ stage_pos' = 1
    /\ pipe_pc' = "stages"
    /\ UNCHANGED <<processed_question, response, confidence, validation_results,
                   errors, pipeline_result, ran, raised_at, pipeRest>>

\* one pass of the for loop over a stage stage_processors holds: its process,
\* or, when that raises, the except branch and the return of the failure result
RunStage ==
    /\ pipe_pc = "stages"
    /\ stage_pos \in DOMAIN route_stages
    /\ route_stages[stage_pos] \in stage_processors
    /\ LET stage == route_stages[stage_pos] IN
       /\ ran' = Append(ran, stage)
       /\ IF StageRaises(stage)
          THEN /\ raised_at' = stage_pos
               /\ pipeline_result' = handle_pipeline_failure
               /\ pipe_pc' = "done"
               /\ UNCHANGED <<stage_pos, processed_question, response, confidence,
                              validation_results>>
          ELSE /\ StageProcess(stage)
               /\ stage_pos' = stage_pos + 1
               /\ UNCHANGED <<raised_at, pipeline_result, pipe_pc>>
    /\ UNCHANGED <<question, route_stages, errors, pipeRest>>

\* one pass of the for loop over a name stage_processors does not hold
UnknownStage ==
    /\ pipe_pc = "stages"
    /\ stage_pos \in DOMAIN route_stages
    /\ route_stages[stage_pos] \notin stage_processors
    /\ errors' = Append(errors, route_stages[stage_pos])
    /\ stage_pos' = AfterUnknownStage(stage_pos)
    /\ UNCHANGED <<pipe_pc, question, route_stages, processed_question, response,
                   confidence, validation_results, pipeline_result, ran, raised_at,
                   pipeRest>>

\* execute_pipeline after the loop: result = pipeline_state.get_final_result()
ReturnResult ==
    /\ pipe_pc = "stages"
    /\ stage_pos > Len(route_stages)
    /\ pipeline_result' = get_final_result
    /\ pipe_pc' = "done"
    /\ UNCHANGED <<question, route_stages, stage_pos, processed_question, response,
                   confidence, validation_results, errors, ran, raised_at, pipeRest>>

\* a caller's execute_pipeline(question, route_config, context)
CallPipeline ==
    /\ pipe_pc = "idle"
    /\ \E q \in Questions, stages \in Routes(MaxStages) : execute_pipeline(q, stages)

PipeNext ==
    \/ CallPipeline
    \/ RunStage
    \/ UnknownStage
    \/ ReturnResult


\* ------------------------------------------------------------- MemoryCache

\* the keys, numbered in the order the caller first uses them
CacheKeys == 1..(MaxCacheSize + 1)

\* the keys a call can name: one used before, or the next new one
Nameable == {k \in CacheKeys : k <= named + 1}

Max(a, b) == IF a >= b THEN a ELSE b

\* the value a call sets, named by the number of the call: every set stores
\* a value no other set stores
FreshValue == ops + 1

\* the ttl argument of set: None, or a number of seconds
TTLs == {None, "0", "1"}

Seconds(ttl) == IF ttl = "1" THEN 1 ELSE 0

\* `ttl = ttl or self.default_ttl`: None and 0 both give the default
EffectiveTTL(ttl) == IF ttl = None \/ Seconds(ttl) = 0 THEN DefaultTTL ELSE Seconds(ttl)

EmptyDict == [k \in {} |-> 0]

DictSet(d, k, v) == [x \in DOMAIN d \cup {k} |-> IF x = k THEN v ELSE d[x]]

DictPop(d, k) == [x \in DOMAIN d \ {k} |-> d[x]]

\* MemoryCache._is_expired
is_expired(k, exp, t) == k \notin DOMAIN exp \/ t > exp[k]

MruKey(times, order) ==
    LET best == CHOOSE i \in DOMAIN order :
                    /\ \A j \in DOMAIN order : times[order[j]] <= times[order[i]]
                    /\ \A j \in 1..(i - 1) : times[order[j]] < times[order[i]]
    IN order[best]

\* min(self.access_times.keys(), key=...): the first key, in dict order, of
\* those with the smallest access time
LruKey(times, order) ==
    LET best == CHOOSE i \in DOMAIN order :
                    /\ \A j \in DOMAIN order : times[order[i]] <= times[order[j]]
                    /\ \A j \in 1..(i - 1) : times[order[j]] > times[order[i]]
    IN order[best]

CacheIdle ==
    /\ cache_pc = "off"
    /\ max_size = 0
    /\ cache = EmptyDict
    /\ access_times = EmptyDict
    /\ access_order = <<>>
    /\ expiry_times = EmptyDict
    /\ now = 0
    /\ ops = 0
    /\ named = 0
    /\ set_log = <<>>
    /\ scenario = "sets"

\* MemoryCache.__init__, for each max_size
CacheInit ==
    /\ cache_pc = "on"
    /\ max_size \in 1..MaxCacheSize
    /\ cache = EmptyDict
    /\ access_times = EmptyDict
    /\ access_order = <<>>
    /\ expiry_times = EmptyDict
    /\ now = 0
    /\ ops = 0
    /\ named = 0
    /\ set_log = <<>>
    /\ scenario = "sets"

\* the clock moves on between two calls
Tick ==
    /\ cache_pc = "on"
    /\ now < MaxTime
    /\ now' = now + 1
    /\ UNCHANGED <<cache_pc, max_size, cache, access_times, access_order, expiry_times,
                   ops, named, set_log, scenario, cacheRest>>

\* MemoryCache.set, with the _evict_lru it may call
MemorySet(k, v, ttl) ==
    /\ cache_pc = "on"
    /\ ops < MaxOps
    /\ ops' = ops + 1
    /\ named' = Max(named, k)
    /\ LET evict == Cardinality(DOMAIN cache) >= max_size /\ k \notin DOMAIN cache
                    /\ access_order # <<>>
           lru_key == LruKey(access_times, access_order)
           c1 == IF evict THEN DictPop(cache, lru_key) ELSE cache
           a1 == IF evict THEN DictPop(access_times, lru_key) ELSE access_times
           o1 == IF evict THEN RemoveName(access_order, lru_key) ELSE access_order
           e1 == IF evict THEN DictPop(expiry_times, lru_key) ELSE expiry_times
       IN /\ cache' = DictSet(c1, k, v)
          /\ access_times' = DictSet(a1, k, now)
          /\ access_order' = IF Contains(o1, k) THEN o1 ELSE Append(o1, k)
          /\ expiry_times' = DictSet(e1, k, now + EffectiveTTL(ttl))
    /\ IF scenario = "sets" /\ Len(set_log) <= max_size
          /\ \A i \in DOMAIN set_log : set_log[i].key # k
       THEN /\ set_log' = Append(set_log, [key |-> k, value |-> v, at |-> now, ttl |-> ttl])
            /\ UNCHANGED scenario
       ELSE /\ scenario' = "other"
            /\ set_log' = <<>>
    /\ UNCHANGED <<cache_pc, max_size, now, cacheRest>>

\* the None a get returns: no value of a set
Missing == 0

\* MemoryCache.get, its return value: None for a key not held or expired
get_returns(k) ==
    IF k \notin DOMAIN cache THEN Missing
    ELSE IF is_expired(k, expiry_times, now) THEN Missing
    ELSE cache[k]

\* MemoryCache.get, its effects: an expired key is deleted, another one touched
MemoryGet(k) ==
    /\ cache_pc = "on"
    /\ ops < MaxOps
    /\ ops' = ops + 1
    /\ named' = Max(named, k)
    /\ IF k \notin DOMAIN cache
       THEN UNCHANGED <<cache, access_times, access_order, expiry_times>>
       ELSE IF is_expired(k, expiry_times, now)
       THEN /\ cache' = DictPop(cache, k)
            /\ access_times' = DictPop(access_times, k)
            /\ access_order' = RemoveName(access_order, k)
            /\ expiry_times' = DictPop(expiry_times, k)
       ELSE /\ access_times' = DictSet(access_times, k, now)
            /\ UNCHANGED <<cache, access_order, expiry_times>>
    /\ IF scenario = "gets" \/ (scenario = "sets" /\ Len(set_log) = max_size + 1)
       THEN /\ scenario' = "gets"
            /\ UNCHANGED set_log
       ELSE /\ scenario' = "other"
            /\ set_log' = <<>>
    /\ UNCHANGED <<cache_pc, max_size, now, cacheRest>>

CacheNext ==
    \/ Tick
    \/ \E k \in Nameable, ttl \in TTLs : MemorySet(k, FreshValue, ttl)
    \/ \E k \in Nameable : MemoryGet(k)

\* ------------------------------------------------------------ CacheManager

\* CacheManager.max_size, and the max_size // 2 each tier is built with
ManagerMaxSize == MaxCacheSize

TierSize == ManagerMaxSize \div 2

\* how many calls of the manager a run makes
MaxManagerOps == MaxOps - 1

\* the keys callers use, and the level arguments: the two tiers and a name
\* cache_levels does not hold
ManagerKeys == 1..(TierSize + 1)

Levels == {"memory", "persistent", "disk"}

cache_levels == <<"memory", "persistent">>

\* CacheManager._generate_cache_key: the md5 hex digest of the key
generate_cache_key(k) == <<"md5", k>>

\* the ttl a PersistentCache.set stores with: its default is default_ttl * 24
PersistentTTL(ttl) ==
    IF ttl = None \/ Seconds(ttl) = 0 THEN DefaultTTL * 24 ELSE Seconds(ttl)

EmptyMemory ==
    [cache |-> EmptyDict, access_times |-> EmptyDict, access_order |-> <<>>,
     expiry_times |-> EmptyDict]

EmptyPersistent ==
    [memory_cache |-> EmptyDict, created_at |-> EmptyDict, expires_at |-> EmptyDict,
     order |-> <<>>]

\* MemoryCache.delete
memory_delete(m, k) ==
    IF k \in DOMAIN m.cache
    THEN [cache |-> DictPop(m.cache, k), access_times |-> DictPop(m.access_times, k),
          access_order |-> RemoveName(m.access_order, k),
          expiry_times |-> DictPop(m.expiry_times, k)]
    ELSE m

\* MemoryCache.get: the tier after the call, and what the call returns
memory_get(m, k, t) ==
    IF k \notin DOMAIN m.cache THEN [tier |-> m, result |-> Missing]
    ELSE IF is_expired(k, m.expiry_times, t)
    THEN [tier |-> memory_delete(m, k), result |-> Missing]
    ELSE [tier |-> [m EXCEPT !.access_times = DictSet(@, k, t)], result |-> m.cache[k]]

\* MemoryCache.set, with the _evict_lru it may call
memory_set(m, k, v, ttl, t) ==
    LET evict == Cardinality(DOMAIN m.cache) >= TierSize /\ k \notin DOMAIN m.cache
                    /\ m.access_order # <<>>
        m1 == IF evict THEN memory_delete(m, LruKey(m.access_times, m.access_order))
              ELSE m
    IN [cache |-> DictSet(m1.cache, k, v),
        access_times |-> DictSet(m1.access_times, k, t),
        access_order |-> IF Contains(m1.access_order, k) THEN m1.access_order
                         ELSE Append(m1.access_order, k),
        expiry_times |-> DictSet(m1.expiry_times, k, t + EffectiveTTL(ttl))]

\* PersistentCache.delete
persistent_delete(p, k) ==
    IF k \in DOMAIN p.memory_cache
    THEN [memory_cache |-> DictPop(p.memory_cache, k),
          created_at |-> DictPop(p.created_at, k),
          expires_at |-> DictPop(p.expires_at, k), order |-> RemoveName(p.order, k)]
    ELSE p

\* PersistentCache.get
persistent_get(p, k, t) ==
    IF k \notin DOMAIN p.memory_cache THEN [tier |-> p, result |-> Missing]
    ELSE IF is_expired(k, p.expires_at, t)
    THEN [tier |-> persistent_delete(p, k), result |-> Missing]
    ELSE [tier |-> p, result |-> p.memory_cache[k]]

\* PersistentCache.set, with the _evict_oldest it may call
persistent_set(p, k, v, ttl, t) ==
    LET evict == Cardinality(DOMAIN p.memory_cache) >= TierSize
                    /\ k \notin DOMAIN p.memory_cache /\ p.order # <<>>
        p1 == IF evict THEN persistent_delete(p, LruKey(p.created_at, p.order)) ELSE p
    IN [memory_cache |-> DictSet(p1.memory_cache, k, v),
        created_at |-> DictSet(p1.created_at, k, t),
        expires_at |-> DictSet(p1.expires_at, k, t + PersistentTTL(ttl)),
        order |-> IF Contains(p1.order, k) THEN p1.order ELSE Append(p1.order, k)]

\* the two tiers as one record, and the calls on the tier a level names
Tiers(m, p) == [memory |-> m, persistent |-> p]

tier_get(ts, level, k, t) ==
    IF level = "memory"
    THEN LET g == memory_get(ts.memory, k, t) IN
         [tiers |-> [ts EXCEPT !.memory = g.tier], result |-> g.result]
    ELSE LET g == persistent_get(ts.persistent, k, t) IN
         [tiers |-> [ts EXCEPT !.persistent = g.tier], result |-> g.result]

tier_set(ts, level, k, v, ttl, t) ==
    IF level = "memory"
    THEN [ts EXCEPT !.memory = memory_set(@, k, v, ttl, t)]
    ELSE [ts EXCEPT !.persistent = persistent_set(@, k, v, ttl, t)]

PromoteNothing(ts, level, k, v, t) == ts

\* `await self.cache_levels[level].set(cache_key, result)`: no ttl is passed
Promote(ts, level, k, v, t) == tier_set(ts, level, k, v, None, t)

\* the for loop of CacheManager.get over cache_levels.values(), from tier i on
RECURSIVE FallThrough(_, _, _, _, _)
FallThrough(ts, i, level, k, t) ==
    IF i > Len(cache_levels)
    THEN [tiers |-> ts, result |-> Missing, hit |-> 0, miss |-> 1]
    ELSE LET g == tier_get(ts, cache_levels[i], k, t) IN
         IF g.result # Missing
         THEN [tiers |-> IF Contains(cache_levels, level)
                         THEN Promote(g.tiers, level, k, g.result, t)
                         ELSE g.tiers,
               result |-> g.result, hit |-> 1, miss |-> 0]
         ELSE FallThrough(g.tiers, i + 1, level, k, t)

\* CacheManager.get: the tiers after the call, what it returns, what it counts
manager_get(ts, key, level, t) ==
    LET k == generate_cache_key(key)
        first == IF Contains(cache_levels, level) THEN tier_get(ts, level, k, t)
                 ELSE [tiers |-> ts, result |-> Missing]
    IN IF first.result # Missing
       THEN [tiers |-> first.tiers, result |-> first.result, hit |-> 1, miss |-> 0]
       ELSE FallThrough(first.tiers, 1, level, k, t)

NoGet ==
    [called |-> FALSE, key |-> 0, level |-> None, requested |-> Missing,
     memory |-> Missing, persistent |-> Missing, returned |-> Missing,
     hits |-> 0, misses |-> 0, after |-> Missing]

MgrIdle ==
    /\ mgr_pc = "off"
    /\ memory_tier = EmptyMemory
    /\ persistent_tier = EmptyPersistent
    /\ hit_count = 0
    /\ miss_count = 0
    /\ mgr_now = 0
    /\ mgr_ops = 0
    /\ last_get = NoGet
    /\ last_set = EmptyDict

\* CacheManager.__init__
MgrInit ==
    /\ mgr_pc = "on"
    /\ memory_tier = EmptyMemory
    /\ persistent_tier = EmptyPersistent
    /\ hit_count = 0
    /\ miss_count = 0
    /\ mgr_now = 0
    /\ mgr_ops = 0
    /\ last_get = NoGet
    /\ last_set = EmptyDict

\* the clock moves on between two calls
ManagerTick ==
    /\ mgr_pc = "on"
    /\ mgr_now < MaxTime
    /\ mgr_now' = mgr_now + 1
    /\ UNCHANGED <<mgr_pc, memory_tier, persistent_tier, hit_count, miss_count, mgr_ops,
                   last_get, last_set, mgrRest>>

\* CacheManager.set
ManagerSet(key, v, ttl, level) ==
    /\ mgr_pc = "on"
    /\ mgr_ops < MaxManagerOps
    /\ mgr_ops' = mgr_ops + 1
    /\ LET ts == IF Contains(cache_levels, level)
                 THEN tier_set(Tiers(memory_tier, persistent_tier), level,
                               generate_cache_key(key), v, ttl, mgr_now)
                 ELSE Tiers(memory_tier, persistent_tier)
       IN /\ memory_tier' = ts.memory
          /\ persistent_tier' = ts.persistent
    /\ last_set' = IF Contains(cache_levels, level)
                   THEN DictSet(last_set, key,
                                [value |-> v, at |-> mgr_now,
                                 ttl |-> IF level = "memory" THEN EffectiveTTL(ttl)
                                         ELSE PersistentTTL(ttl)])
                   ELSE last_set
    /\ UNCHANGED <<mgr_pc, hit_count, miss_count, mgr_now, last_get, mgrRest>>

\* CacheManager.get
ManagerGet(key, level) ==
    /\ mgr_pc = "on"
    /\ mgr_ops < MaxManagerOps
    /\ mgr_ops' = mgr_ops + 1
    /\ LET before == Tiers(memory_tier, persistent_tier)
           k == generate_cache_key(key)
           g == manager_get(before, key, level, mgr_now)
       IN /\ memory_tier' = g.tiers.memory
          /\ persistent_tier' = g.tiers.persistent
          /\ hit_count' = hit_count + g.hit
          /\ miss_count' = miss_count + g.miss
          /\ last_get' =
                [called |-> TRUE, key |-> key, level |-> level,
                 requested |-> IF Contains(cache_levels, level)
                               THEN tier_get(before, level, k, mgr_now).result
                               ELSE Missing,
                 memory |-> tier_get(before, "memory", k, mgr_now).result,
                 persistent |-> tier_get(before, "persistent", k, mgr_now).result,
                 returned |-> g.result,
                 hits |-> g.hit, misses |-> g.miss,
                 after |-> IF Contains(cache_levels, level)
                           THEN tier_get(g.tiers, level, k, mgr_now).result
                           ELSE Missing]
    /\ UNCHANGED <<mgr_pc, mgr_now, last_set, mgrRest>>

\* CacheManager.clear: one tier, or with no (or an unknown) level both; the
\* counters start again at 0
ManagerClear(level) ==
    /\ mgr_pc = "on"
    /\ mgr_ops < MaxManagerOps
    /\ mgr_ops' = mgr_ops + 1
    /\ memory_tier' = IF level = "persistent" THEN memory_tier ELSE EmptyMemory
    /\ persistent_tier' = IF level = "memory" THEN persistent_tier ELSE EmptyPersistent
    /\ hit_count' = 0
    /\ miss_count' = 0
    /\ UNCHANGED <<mgr_pc, mgr_now, last_get, last_set, mgrRest>>

\* the ttl arguments of CacheManager.set
ManagerTTLs == {None, "1"}

MgrNext ==
    \/ ManagerTick
    \/ \E key \in ManagerKeys, ttl \in ManagerTTLs, level \in SeqToSet(cache_levels) :
           ManagerSet(key, mgr_ops + 1, ttl, level)
    \/ \E key \in ManagerKeys, level \in Levels : ManagerGet(key, level)
    \/ \E level \in {None, "memory"} : ManagerClear(level)

\* --------------------------------------------------------- ResourceManager

\* ResourceManager.resource_limits
resource_limits ==
    [cpu_cores |-> 8, memory_gb |-> 32, concurrent_requests |-> 100,
     api_calls_per_minute |-> 1000]

Resources == DOMAIN resource_limits

\* the amounts a caller asks for or gives back (none of them negative)
Amounts == 0..MaxAmount

\* the keys of required_resources, and request.get's default for each
RequiredKeys == {"cpu_cores", "memory_gb"}

\* a key the request dict does not hold
NotGiven == -1

required_resources(request) ==
    [r \in RequiredKeys |->
        IF request[r] # NotGiven THEN request[r]
        ELSE IF r = "cpu_cores" THEN 1 ELSE 2]

\* the requests: each key of required_resources given, or left out
Requests == [RequiredKeys -> Amounts \cup {NotGiven}]

FitsWithOneOver(amount, available) == ~(amount > available + 1)

\* _can_allocate, one resource: `if amount > available: return False`
Fits(amount, available) == ~(amount > available)

\* ResourceManager._can_allocate
can_allocate(required, usage) ==
    \A r \in DOMAIN required :
        r \in Resources => Fits(required[r], resource_limits[r] - usage[r])

\* ResourceManager._update_usage
update_usage(usage, resources, operation) ==
    LET multiplier == IF operation = "allocate" THEN 1 ELSE -1 IN
    [r \in DOMAIN usage |->
        IF r \in DOMAIN resources
        THEN LET moved == usage[r] + resources[r] * multiplier IN
             IF moved > 0 THEN moved ELSE 0
        ELSE usage[r]]

NoUsage == [r \in Resources |-> 0]

NoCall ==
    [op |-> None, required |-> [r \in RequiredKeys |-> 0], before |-> NoUsage,
     allocated |-> FALSE]

ResIdle ==
    /\ res_pc = "off"
    /\ current_usage = NoUsage
    /\ last_call = NoCall

\* ResourceManager.__init__
ResInit ==
    /\ res_pc = "on"
    /\ current_usage = NoUsage
    /\ last_call = NoCall

\* ResourceManager.allocate_resources
allocate_resources(request) ==
    /\ res_pc = "on"
    /\ LET required == required_resources(request)
           admitted == can_allocate(required, current_usage)
       IN /\ current_usage' = IF admitted
                              THEN update_usage(current_usage, required, "allocate")
                              ELSE current_usage
          /\ last_call' = [op |-> "allocate", required |-> required,
                           before |-> current_usage, allocated |-> admitted]
    /\ UNCHANGED <<res_pc, resRest>>

\* ResourceManager.release_resources
release_resources(used_resources) ==
    /\ res_pc = "on"
    /\ current_usage' = update_usage(current_usage, used_resources, "release")
    /\ last_call' = [op |-> "release", required |-> [r \in RequiredKeys |-> 0],
                     before |-> current_usage, allocated |-> FALSE]
    /\ UNCHANGED <<res_pc, resRest>>

\* what a release gives back: the resources of an allocation, or an amount
\* of one resource
Releases ==
    [RequiredKeys -> Amounts] \cup
    {[r \in {x} |-> a] : x \in Resources, a \in Amounts}

ResNext ==
    \/ \E request \in Requests : allocate_resources(request)
    \/ \E used_resources \in Releases : release_resources(used_resources)

\* ------------------------------------------- classification (core/classifier.py)

\* Python values of two types: a str, and the dict an analyzer returns
Str(s) == [type |-> "str", text |-> s]

UrgencyLevels == {"high", "medium", "low"}

\* UrgencyAnalyzer.analyze returns a dict; its 'urgency_level' is the level
UrgencyAnalysis(level) == [type |-> "dict", urgency_level |-> level]

DomainTypes == {"general", "professional", "academic", "technical", "specialized"}

\* DomainAnalyzer.analyze returns a dict; its 'domain_type' is the type
DomainAnalysis(domain) == [type |-> "dict", domain_type |-> domain]

\* ComplexityAnalyzer.analyze returns an int from 0 to 5
ComplexityLevels == 0..5

Strategies == {"fast_track", "standard", "comprehensive", "tool_assisted"}

\* what the analyzers can hand to synthesize_routing_decision
AnalysisResults ==
    [complexity : ComplexityLevels,
     domain : {DomainAnalysis(d) : d \in DomainTypes},
     urgency : {UrgencyAnalysis(u) : u \in UrgencyLevels},
     tool_needs : [required : BOOLEAN]]

\* MultiDimensionalClassifier._determine_strategy: `urgency == 'high'`
\* compares the analyzer's dict with a str
determine_strategy(analysis_result) ==
    IF analysis_result.urgency = Str("high") /\ analysis_result.complexity <= 2
    THEN "fast_track"
    ELSE IF analysis_result.complexity >= 4 THEN "comprehensive"
    ELSE IF analysis_result.tool_needs.required THEN "tool_assisted"
    ELSE "standard"

\* MultiDimensionalClassifier.synthesize_routing_decision
synthesize_routing_decision(analysis_result) ==
    [complexity_level |-> analysis_result.complexity,
     domain_type |-> analysis_result.domain,
     urgency_level |-> analysis_result.urgency,
     requires_tools |-> analysis_result.tool_needs.required,
     recommended_strategy |-> determine_strategy(analysis_result)]

\* ------------------------------------------------- routing (core/router.py)

\* the list and dict objects routes refer to: those of the four templates,
\* and those of the copies one create_processing_pipeline call makes
Candidates == {"base", "speed", "quality", "efficient"}

Objects == Strategies \cup Candidates

\* IntelligentRoutingEngine._initialize_route_templates: the stage lists
TemplateStages ==
    [fast_track |-> <<"preprocessing", "simple_reasoning", "basic_validation">>,
     standard |-> <<"preprocessing", "knowledge_retrieval", "reasoning", "validation">>,
     comprehensive |-> <<"preprocessing", "multi_source_retrieval", "tool_orchestration",
                         "advanced_reasoning", "multi_stage_validation">>,
     tool_assisted |-> <<"preprocessing", "tool_planning", "tool_execution",
                         "result_integration", "validation">>]

\* IntelligentRoutingEngine._initialize_route_templates: the route objects;
\* stages and context name the list and the dict the route holds
initialize_route_templates ==
    [fast_track |-> [stages |-> "fast_track", parallel_execution |-> FALSE,
                     timeout |-> 5, model_preference |-> "speed",
                     context |-> "fast_track"],
     standard |-> [stages |-> "standard", parallel_execution |-> TRUE,
                   timeout |-> 15, model_preference |-> "balanced",
                   context |-> "standard"],
     comprehensive |-> [stages |-> "comprehensive", parallel_execution |-> TRUE,
                        timeout |-> 30, model_preference |-> "quality",
                        context |-> "comprehensive"],
     tool_assisted |-> [stages |-> "tool_assisted", parallel_execution |-> TRUE,
                        timeout |-> 25, model_preference |-> "balanced",
                        context |-> "tool_assisted"]]

InitialLists == [o \in Objects |-> IF o \in Strategies THEN TemplateStages[o] ELSE <<>>]

InitialDicts == [o \in Objects |-> {}]

\* the objects of the engine: routes, the lists they hold as stages and the
\* dicts they hold as context, each by name
Heap(routes, lists, dicts) == [routes |-> routes, lists |-> lists, dicts |-> dicts]

\* ProcessingRoute(): the defaults, for a name no route has yet
NoRoute ==
    [stages |-> None, parallel_execution |-> FALSE, timeout |-> 0,
     model_preference |-> None, context |-> None]

RouteCopyShared(H, route, name) == [heap |-> H, route |-> route]

\* ProcessingRoute.copy: a new route with the same attributes, a new list and
\* a new dict
route_copy(H, route, name) ==
    [heap |-> Heap([H.routes EXCEPT ![name] = [H.routes[route] EXCEPT !.stages = name,
                                                                      !.context = name]],
                   [H.lists EXCEPT ![name] = H.lists[H.routes[route].stages]],
                   [H.dicts EXCEPT ![name] = H.dicts[H.routes[route].context]]),
     route |-> name]

RECURSIVE Without(_, _)
Without(s, x) ==
    IF s = <<>> THEN <<>>
    ELSE IF Head(s) = x THEN Tail(s)
    ELSE <<Head(s)>> \o Without(Tail(s), x)

\* ProcessingRoute.remove_stage: list.remove of the first occurrence
remove_stage(H, route, stage_name) ==
    IF Contains(H.lists[H.routes[route].stages], stage_name)
    THEN [H EXCEPT !.lists[H.routes[route].stages] = Without(@, stage_name)]
    ELSE H

\* ProcessingRoute.add_stage
add_stage(H, route, stage_name) ==
    IF Contains(H.lists[H.routes[route].stages], stage_name) THEN H
    ELSE [H EXCEPT !.lists[H.routes[route].stages] = Append(@, stage_name)]

\* ProcessingRoute.add_context
add_context(H, route, key) == [H EXCEPT !.dicts[H.routes[route].context] = @ \cup {key}]

Min(a, b) == IF a <= b THEN a ELSE b

\* IntelligentRoutingEngine._create_speed_optimized_route
create_speed_optimized_route(H, base_route) ==
    LET c == route_copy(H, base_route, "speed")
        speed_route == c.route
        h1 == [c.heap EXCEPT !.routes[speed_route].timeout = Min(@, 10),
                             !.routes[speed_route].model_preference = "speed"]
    IN [heap |-> remove_stage(h1, speed_route, "multi_stage_validation"),
        route |-> speed_route]

\* IntelligentRoutingEngine._create_quality_optimized_route
create_quality_optimized_route(H, base_route) ==
    LET c == route_copy(H, base_route, "quality")
        quality_route == c.route
        h1 == [c.heap EXCEPT !.routes[quality_route].model_preference = "quality"]
    IN [heap |-> add_stage(add_stage(h1, quality_route, "fact_checking"),
                           quality_route, "expert_validation"),
        route |-> quality_route]

EfficientDropsToolExecution(H, base_route) ==
    LET c == route_copy(H, base_route, "efficient")
        efficient_route == c.route
        h1 == [c.heap EXCEPT !.routes[efficient_route].parallel_execution = FALSE,
                             !.routes[efficient_route].model_preference = "speed"]
    IN [heap |-> remove_stage(h1, efficient_route, "tool_execution"),
        route |-> efficient_route]

\* IntelligentRoutingEngine._create_resource_efficient_route
create_resource_efficient_route(H, base_route) ==
    LET c == route_copy(H, base_route, "efficient")
        efficient_route == c.route
        h1 == [c.heap EXCEPT !.routes[efficient_route].parallel_execution = FALSE,
                             !.routes[efficient_route].model_preference = "speed"]
    IN [heap |-> remove_stage(h1, efficient_route, "multi_source_retrieval"),
        route |-> efficient_route]

\* a candidate route appended to the routes made so far
WithRoute(made, c) == [heap |-> c.heap, routes |-> Append(made.routes, c.route)]

\* IntelligentRoutingEngine._generate_candidate_routes; high_load is what
\* resource_manager.is_high_load() answers
generate_candidate_routes(H, classification_result, high_load) ==
    LET b == route_copy(H, classification_result.recommended_strategy, "base")
        r0 == [heap |-> b.heap, routes |-> <<b.route>>]
        r1 == IF classification_result.urgency_level = Str("high")
              THEN WithRoute(r0, create_speed_optimized_route(r0.heap, b.route))
              ELSE r0
        r2 == IF classification_result.domain_type
                    \in {Str("professional"), Str("academic"), Str("technical")}
              THEN WithRoute(r1, create_quality_optimized_route(r1.heap, b.route))
              ELSE r1
    IN IF high_load
       THEN WithRoute(r2, create_resource_efficient_route(r2.heap, b.route))
       ELSE r2

Abs(x) == IF x >= 0 THEN x ELSE -x

\* QualityPredictor._estimate_route_complexity, times 2: 1.0, 2.5 or 4.0
estimate_route_complexity(stage_count) ==
    IF stage_count <= 2 THEN 2 ELSE IF stage_count <= 4 THEN 5 ELSE 8

\* QualityPredictor._get_model_performance_score, times 10
get_model_performance_score(model_preference) ==
    CASE model_preference = "speed" -> 7
      [] model_preference = "quality" -> 9
      [] model_preference = "balanced" -> 8

\* QualityPredictor.predict_quality, times 6000: the weighted features
\* complexity_match, model_performance, resource_adequacy, historical_success
predict_quality(stage_count, route, classification_result) ==
    LET complexity_match ==
            10 - Abs(2 * classification_result.complexity_level
                       - estimate_route_complexity(stage_count))
        resource_adequacy == Min(route.timeout, 30) \div 5
    IN 180 * complexity_match
         + 150 * get_model_performance_score(route.model_preference)
         + 200 * resource_adequacy + 1200

\* IntelligentRoutingEngine._assess_risk, times 10
assess_risk(route, classification_result) ==
    (IF route.timeout < 10 THEN 2 ELSE 0)
      + (IF classification_result.complexity_level > 3
            /\ route.model_preference = "speed" THEN 3 ELSE 0)

\* classification_result.get('expected_time', 15.0)
expected_time == 15

\* IntelligentRoutingEngine._predict_user_satisfaction, times 10
predict_user_satisfaction(route) ==
    Min(8 + (IF route.model_preference = "quality" THEN 1 ELSE 0)
          + (IF route.timeout <= expected_time THEN 1 ELSE 0), 10)

\* IntelligentRoutingEngine._evaluate_route with _calculate_overall_score:
\* the overall score times 60000; load_factor is given in tenths
evaluate_route(H, name, classification_result, load_factor) ==
    LET route == H.routes[name]
        stage_count == Len(H.lists[route.stages])
        quality == predict_quality(stage_count, route, classification_result)
        time == 150 - Min(stage_count * load_factor, 150)
        cost == 20 - Min(stage_count * (IF route.parallel_execution THEN 3 ELSE 2), 20)
        risk == 10 - assess_risk(route, classification_result)
    IN 3 * quality + 100 * time + 600 * cost + 600 * risk
         + 900 * predict_user_satisfaction(route)

\* IntelligentRoutingEngine._select_optimal_route: the first route no other
\* one scores above
select_optimal_route(H, routes, classification_result, load_factor) ==
    LET score(i) == evaluate_route(H, routes[i], classification_result, load_factor)
        best == CHOOSE i \in DOMAIN routes :
                    /\ \A j \in DOMAIN routes : score(j) <= score(i)
                    /\ \A j \in 1..(i - 1) : score(j) < score(i)
    IN routes[best]

\* IntelligentRoutingEngine._build_processing_pipeline
build_processing_pipeline(H, route) ==
    add_context(add_context(add_context(H, route, "classification_result"),
                            route, "selected_model"),
                route, "resource_allocation")

\* the candidates the call does not return are garbage once it returns: only
\* the templates and the objects of the returned route are kept
Kept(H, route) ==
    LET live(o, held) == o \in Strategies \/ o = held
    IN Heap([o \in Objects |-> IF live(o, route) THEN H.routes[o] ELSE NoRoute],
            [o \in Objects |-> IF live(o, H.routes[route].stages) THEN H.lists[o]
                               ELSE <<>>],
            [o \in Objects |-> IF live(o, H.routes[route].context) THEN H.dicts[o]
                               ELSE {}])

\* IntelligentRoutingEngine.create_processing_pipeline: the route returned,
\* and the objects after the call
create_processing_pipeline(H, classification_result, load_factor, high_load) ==
    LET made == generate_candidate_routes(H, classification_result, high_load)
        optimal_route == select_optimal_route(made.heap, made.routes,
                                              classification_result, load_factor)
    IN [heap |-> Kept(build_processing_pipeline(made.heap, optimal_route),
                      optimal_route),
        route |-> optimal_route]

\* the engine's objects as the variables hold them; the route a caller holds
\* from an earlier call is the caller's
EngineHeap ==
    Heap([o \in Objects |-> IF o \in Strategies THEN route_templates[o] ELSE NoRoute],
         stage_lists, contexts)

\* ------------------------------------------ the scheduler (core/scheduler.py)

\* the keys _plan_improvement_strategy can put in improvement_strategy
StrategyKeys == {"fact_verification", "enhancement", "reasoning"}

\* validation_result.improvement_action: approve, enhance, or improve with a
\* strategy dict, given by its keys
ImprovementActions ==
    {[action |-> "approve", strategy |-> {}], [action |-> "enhance", strategy |-> {}]}
        \cup {[action |-> "improve", strategy |-> s] : s \in SUBSET StrategyKeys}

\* list.append
list_append(lists, list, x) == [lists EXCEPT ![list] = Append(@, x)]

\* UnifiedScheduler._improve_response up to its try: processing_route.copy()
\* is dict.copy(), a new dict whose 'stages' is the list of processing_route
improve_response(lists, route, strategy) ==
    LET improvement_route == route
        h1 == IF "fact_verification" \in strategy
              THEN list_append(lists, improvement_route.stages, "additional_fact_check")
              ELSE lists
        h2 == IF "enhancement" \in strategy
              THEN list_append(h1, improvement_route.stages, "information_gathering")
              ELSE h1
    IN [lists |-> h2,
        route |-> IF "reasoning" \in strategy
                  THEN [improvement_route EXCEPT !.model_preference = "quality"]
                  ELSE improvement_route]

\* the steps of process_question inside its try, in order
Steps == <<"classify", "route", "execute", "validate", "improve", "learn">>

NoLearningInTry(step) == Contains(Steps, step) /\ step # "learn"

\* process_question: the statements its try block holds
InsideTry(step) == Contains(Steps, step)

NoClassification ==
    [complexity_level |-> 0, domain_type |-> Str(None), urgency_level |-> Str(None),
     requires_tools |-> FALSE, recommended_strategy |-> None]

\* ProcessingResult(): the defaults; outcome tells whether process_question
\* has returned the result, or has let an exception out instead
NoAnswer == [success |-> FALSE, confidence |-> Zero, error |-> None, outcome |-> "pending"]

\* an exception left process_question
Propagated == [success |-> FALSE, confidence |-> Zero, error |-> None, outcome |-> "raised"]

\* UnifiedScheduler._handle_processing_error
handle_processing_error(text) ==
    [success |-> FALSE, confidence |-> Zero, error |-> text, outcome |-> "returned"]

\* what a pipeline run gives: success needs every stage to be known
PipelineResults(stages) ==
    {[success |-> ok, confidence |-> <<7, 10>>, error |-> None, outcome |-> "pending"] :
        ok \in {b \in BOOLEAN : b => \A i \in DOMAIN stages : stages[i] \in stage_processors}}

\* the stage list and model preference a route has now
RouteNow(route) ==
    [stages |-> stage_lists[route.stages], model_preference |-> route.model_preference]

NoRouteSeen == [stages |-> <<>>, model_preference |-> None]

SchedIdle ==
    /\ sched_pc = "off"
    /\ route_templates = initialize_route_templates
    /\ stage_lists = InitialLists
    /\ contexts = InitialDicts
    /\ classification = NoClassification
    /\ processing_route = NoRoute
    /\ initial_result = NoAnswer
    /\ improvement_action = [action |-> None, strategy |-> {}]
    /\ final_result = NoAnswer
    /\ raised_in = None
    /\ route_before = NoRouteSeen
    /\ improved = FALSE
    /\ asked_question = None
    /\ pipeline_question = None

\* the question texts a caller passes to process_question
SchedulerQuestions == {"what is x", "why is y"}

\* the literal _improve_response falls back on (the source's text is Chinese
\* for "the question processed again")
ReprocessedQuestion == "the question processed again"

\* the attributes of a ProcessingResult: the fields of the dataclass
ProcessingResultFields ==
    {"response", "confidence", "success", "processing_time", "knowledge_sources",
     "tool_results", "validation_results", "metadata", "errors", "error"}

\* `result.original_question if hasattr(result, 'original_question') else ...`,
\* the question _improve_response hands to execute_pipeline
improvement_question(result) ==
    IF "original_question" \in ProcessingResultFields THEN result.original_question
    ELSE ReprocessedQuestion

\* UnifiedScheduler.__init__, IntelligentRoutingEngine.__init__
SchedInit ==
    /\ sched_pc = "idle"
    /\ route_templates = initialize_route_templates
    /\ stage_lists = InitialLists
    /\ contexts = InitialDicts
    /\ classification = NoClassification
    /\ processing_route = NoRoute
    /\ initial_result = NoAnswer
    /\ improvement_action = [action |-> None, strategy |-> {}]
    /\ final_result = NoAnswer
    /\ raised_in = None
    /\ route_before = NoRouteSeen
    /\ improved = FALSE
    /\ asked_question = None
    /\ pipeline_question = None

\* system_status['load_factor'], in tenths
LoadFactors == {10, 25}

\* a caller's process_question(question, user_context, conversation_history)
ProcessQuestion ==
    /\ sched_pc \in {"idle", "done"}
    /\ sched_pc' = "classify"
    /\ classification' = NoClassification
    /\ processing_route' = NoRoute
    /\ initial_result' = NoAnswer
    /\ improvement_action' = [action |-> None, strategy |-> {}]
    /\ final_result' = NoAnswer
    /\ raised_in' = None
    /\ route_before' = NoRouteSeen
    /\ improved' = FALSE
    /\ asked_question' \in SchedulerQuestions
    /\ pipeline_question' = None
    /\ UNCHANGED <<route_templates, stage_lists, contexts, schedRest>>

\* classification = await self.classifier.classify_question(...)
Classify ==
    /\ sched_pc = "classify"
    /\ \E analysis_result \in AnalysisResults :
           classification' = synthesize_routing_decision(analysis_result)
    /\ sched_pc' = "route"
    /\ UNCHANGED <<route_templates, stage_lists, contexts, processing_route,
                   initial_result, improvement_action, final_result, raised_in,
                   route_before, improved, asked_question, pipeline_question, schedRest>>

\* processing_route = await self.routing_engine.create_processing_pipeline(...);
\* nothing allocates on the engine's resource manager, so is_high_load is False
RouteQuestion ==
    /\ sched_pc = "route"
    /\ \E load_factor \in LoadFactors :
           LET made == create_processing_pipeline(EngineHeap, classification,
                                                  load_factor, FALSE)
           IN /\ route_templates' = [s \in Strategies |-> made.heap.routes[s]]
              /\ stage_lists' = made.heap.lists
              /\ contexts' = made.heap.dicts
              /\ processing_route' = made.heap.routes[made.route]
    /\ sched_pc' = "execute"
    /\ UNCHANGED <<classification, initial_result, improvement_action,
                   final_result, raised_in, route_before, improved,
                   asked_question, pipeline_question, schedRest>>

\* initial_result = await self.pipeline_executor.execute_pipeline(...)
ExecuteRoute ==
    /\ sched_pc = "execute"
    /\ initial_result' \in PipelineResults(stage_lists[processing_route.stages])
    /\ pipeline_question' = asked_question
    /\ sched_pc' = "validate"
    /\ UNCHANGED <<route_templates, stage_lists, contexts, classification,
                   processing_route, improvement_action, final_result, raised_in,
                   route_before, improved, asked_question, schedRest>>

\* validation_result = await self.quality_controller.validate_response(...)
ValidateResponse ==
    /\ sched_pc = "validate"
    /\ improvement_action' \in ImprovementActions
    /\ sched_pc' = "improve"
    /\ UNCHANGED <<route_templates, stage_lists, contexts, classification,
                   processing_route, initial_result, final_result, raised_in,
                   route_before, improved, asked_question, pipeline_question, schedRest>>

\* UnifiedScheduler._handle_improvement_suggestions, with _improve_response:
\* the pipeline runs the improvement route; execute_pipeline returns a result
\* for every exception of its stages, so the `except Exception: return result`
\* around the call is never entered
HandleImprovement ==
    /\ sched_pc = "improve"
    /\ IF improvement_action.action = "improve"
       THEN LET made == improve_response(stage_lists, processing_route,
                                         improvement_action.strategy)
            IN /\ stage_lists' = made.lists
               /\ route_before' = RouteNow(processing_route)
               /\ improved' = TRUE
               /\ final_result' \in PipelineResults(made.lists[made.route.stages])
               /\ pipeline_question' = improvement_question(initial_result)
       ELSE /\ final_result' = [initial_result EXCEPT !.confidence = <<1, 2>>]
            /\ UNCHANGED <<stage_lists, route_before, improved, pipeline_question>>
    /\ sched_pc' = "learn"
    /\ UNCHANGED <<route_templates, contexts, classification, processing_route, initial_result,
                   improvement_action, raised_in, asked_question, schedRest>>

\* learn_from_interaction, then `return final_result`
LearnAndReturn ==
    /\ sched_pc = "learn"
    /\ final_result' = [final_result EXCEPT !.outcome = "returned"]
    /\ sched_pc' = "done"
    /\ UNCHANGED <<route_templates, stage_lists, contexts, classification,
                   processing_route, initial_result, improvement_action, raised_in,
                   route_before, improved, asked_question, pipeline_question, schedRest>>

\* str(e)
ErrorMessage == "error text"

\* the step process_question is at raises: `except Exception as e` returns
\* _handle_processing_error's result
StepRaises ==
    /\ Contains(Steps, sched_pc)
    /\ raised_in' = sched_pc
    /\ final_result' = IF InsideTry(sched_pc) THEN handle_processing_error(ErrorMessage)
                       ELSE Propagated
    /\ sched_pc' = "done"
    /\ UNCHANGED <<route_templates, stage_lists, contexts, classification,
                   processing_route, initial_result, improvement_action, route_before,
                   improved, asked_question, pipeline_question, schedRest>>

SchedNext ==
    \/ ProcessQuestion
    \/ Classify
    \/ RouteQuestion
    \/ ExecuteRoute
    \/ ValidateResponse
    \/ HandleImprovement
    \/ LearnAndReturn
    \/ StepRaises

\* ------------------------------------- the routing engine called on its own

\* the classification results create_processing_pipeline is called with: the
\* urgency level and the domain type as the str the engine compares them
\* with, or as the dict an analyzer returns
Classifications ==
    [complexity_level : ComplexityLevels,
     domain_type : {Str("general"), Str("professional"), DomainAnalysis("professional")},
     urgency_level : {Str("high"), Str("medium"), UrgencyAnalysis("high")},
     requires_tools : {FALSE},
     recommended_strategy : Strategies]

\* IntelligentRoutingEngine()
RouterInit ==
    /\ sched_pc = "router"
    /\ route_templates = initialize_route_templates
    /\ stage_lists = InitialLists
    /\ contexts = InitialDicts
    /\ classification = NoClassification
    /\ processing_route = NoRoute
    /\ initial_result = NoAnswer
    /\ improvement_action = [action |-> None, strategy |-> {}]
    /\ final_result = NoAnswer
    /\ raised_in = None
    /\ route_before = NoRouteSeen
    /\ improved = FALSE
    /\ asked_question = None
    /\ pipeline_question = None

\* a call of create_processing_pipeline(classification_result, system_status)
\* by a caller that holds no route of an earlier call
CreatePipeline(classification_result, load_factor, high_load) ==
    /\ sched_pc = "router"
    /\ processing_route = NoRoute
    /\ LET made == create_processing_pipeline(EngineHeap, classification_result,
                                              load_factor, high_load)
       IN /\ route_templates' = [s \in Strategies |-> made.heap.routes[s]]
          /\ stage_lists' = made.heap.lists
          /\ contexts' = made.heap.dicts
          /\ processing_route' = made.heap.routes[made.route]
    /\ classification' = classification_result
    /\ route_before' = NoRouteSeen
    /\ improved' = FALSE
    /\ UNCHANGED <<sched_pc, initial_result, improvement_action, final_result,
                   raised_in, asked_question, pipeline_question, schedRest>>

\* the scheduler's _improve_response on the __dict__ of the route the engine
\* returned, once for a route
ImproveRoute(strategy) ==
    /\ sched_pc = "router"
    /\ processing_route # NoRoute
    /\ ~improved
    /\ LET made == improve_response(stage_lists, processing_route, strategy)
       IN stage_lists' = made.lists
    /\ route_before' = RouteNow(processing_route)
    /\ improved' = TRUE
    /\ UNCHANGED <<sched_pc, route_templates, contexts, classification,
                   processing_route, initial_result, improvement_action, final_result,
                   raised_in, asked_question, pipeline_question, schedRest>>

\* the caller lets go of the route, as process_question does when it
\* returns: the route's list and dict are garbage, the templates stay
ReleaseRoute ==
    /\ sched_pc = "router"
    /\ processing_route # NoRoute
    /\ processing_route' = NoRoute
    /\ stage_lists' = [o \in Objects |-> IF o \in Strategies THEN stage_lists[o] ELSE <<>>]
    /\ contexts' = [o \in Objects |-> IF o \in Strategies THEN contexts[o] ELSE {}]
    /\ classification' = NoClassification
    /\ route_before' = NoRouteSeen
    /\ improved' = FALSE
    /\ UNCHANGED <<sched_pc, route_templates, initial_result, improvement_action,
                   final_result, raised_in, asked_question, pipeline_question, schedRest>>

RouterNext ==
    \/ \E classification_result \in Classifications, load_factor \in LoadFactors,
          high_load \in BOOLEAN :
           CreatePipeline(classification_result, load_factor, high_load)
    \/ \E strategy \in SUBSET StrategyKeys : ImproveRoute(strategy)
    \/ ReleaseRoute

\* --------------------------------------------- the interactive loop (main.py)

\* the keywords that end the loop; "tuichu" stands for the third one, which
\* main.py writes in Chinese characters
ExitKeywords == {"quit", "exit", "tuichu"}

\* what the user can type at the prompt
Lines == {"quit", "QUIT", "Exit", "tuichu", "", "why", "exit now"}

\* str.lower
Lower(line) ==
    CASE line = "QUIT" -> "quit"
      [] line = "Exit" -> "exit"
      [] OTHER -> line

\* what UnifiedScheduler.process_question does with the question: it returns
\* a ProcessingResult of a success or of a handled failure (its own
\* `except Exception` leaves nothing for IntelligentQASystem's to catch)
SchedulerOutcomes == {"success", "failure"}

\* IntelligentQASystem.process_question: the scheduler's ProcessingResult, or
\* the dict of its except branch
system_process_question(line, outcome) ==
    CASE outcome = "success" ->
             [type |-> "ProcessingResult", success |-> TRUE, response |-> line]
      [] outcome = "failure" ->
             [type |-> "ProcessingResult", success |-> FALSE, response |-> "sorry"]
      [] OTHER -> [type |-> "dict", success |-> FALSE, response |-> "sorry"]

\* hasattr(result, 'get'): dict has the method, the ProcessingResult dataclass
\* defines to_dict and from_dict only
HasGet(result) == result.type = "dict"

\* f"{x:.2f}" of the default 0
TwoDecimals == "0.00"

\* the three print calls of the loop body; the first result.get raises
\* AttributeError on an object without get, and `except Exception as e`
\* prints the error
print_result(result) ==
    IF HasGet(result)
    THEN <<[label |-> "response", text |-> result.response],
           [label |-> "confidence", text |-> TwoDecimals],
           [label |-> "processing_time", text |-> TwoDecimals]>>
    ELSE <<[label |-> "error", text |-> "no attribute get"]>>

NoTurn == [line |-> None, outcome |-> None, printed |-> <<>>]

MainIdle ==
    /\ main_pc = "off"
    /\ turns = <<>>
    /\ turn = NoTurn

\* main() up to the loop
MainInit ==
    /\ main_pc = "prompt"
    /\ turns = <<>>
    /\ turn = NoTurn

\* question = input(...), and the break on an exit keyword
ReadLine(line) ==
    /\ main_pc = "prompt"
    /\ Len(turns) < MaxRequests
    /\ IF Lower(line) \in ExitKeywords
       THEN /\ main_pc' = "farewell"
            /\ UNCHANGED turn
       ELSE /\ main_pc' = "process"
            /\ turn' = [line |-> line, outcome |-> None, printed |-> <<>>]
    /\ UNCHANGED <<turns, mainRest>>

\* result = await system.process_question(question)
ProcessLine(outcome) ==
    /\ main_pc = "process"
    /\ turn' = [turn EXCEPT !.outcome = outcome]
    /\ main_pc' = "print"
    /\ UNCHANGED <<turns, mainRest>>

\* the print calls, or the except branch, then the loop goes round
PrintResult ==
    /\ main_pc = "print"
    /\ LET done == [turn EXCEPT
                        !.printed = print_result(system_process_question(turn.line,
                                                                         turn.outcome))]
       IN /\ turn' = done
          /\ turns' = Append(turns, done)
    /\ main_pc' = "prompt"
    /\ UNCHANGED mainRest

\* except KeyboardInterrupt: break
KeyboardInterrupt ==
    /\ main_pc \in {"prompt", "process", "print"}
    /\ main_pc' = "farewell"
    /\ UNCHANGED <<turns, turn, mainRest>>

\* the print after the loop
Farewell ==
    /\ main_pc = "farewell"
    /\ main_pc' = "exited"
    /\ UNCHANGED <<turns, turn, mainRest>>

MainNext ==
    \/ \E line \in Lines : ReadLine(line)
    \/ \E outcome \in SchedulerOutcomes : ProcessLine(outcome)
    \/ PrintResult
    \/ KeyboardInterrupt
    \/ Farewell

\* --------------------------------- ValidationResult (data/data_structures.py)

\* the check names validate_response records
CheckNames == {"basic_quality", "consistency", "completeness"}

\* the scores add_check is called with, in tenths: some below 0.0 and above 1.0
GivenScores == {-5, 3, 6, 9, 10, 15}

ScoreUnclamped(score) == score

\* max(0.0, min(1.0, score))
Clamp(score) == Max(0, Min(10, score))

RECURSIVE SumValues(_)
\* sum(self.checks.values())
SumValues(d) ==
    IF DOMAIN d = {} THEN 0
    ELSE LET k == CHOOSE x \in DOMAIN d : TRUE
         IN d[k] + SumValues(DictPop(d, k))

\* what float arithmetic can make of sum / len where it matters, at a mean
\* that is a threshold of the status: the quotient one step below, at, or one
\* step above the exact mean
Roundings(checks) ==
    IF \E threshold \in {6, 8} : SumValues(checks) = threshold * Cardinality(DOMAIN checks)
    THEN {-1, 0, 1}
    ELSE {0}

\* a float quotient compared with a threshold given in tenths: the rounding
\* decides only when the exact mean is the threshold
AtLeast(score, threshold) ==
    \/ score.sum * 10 > threshold * 10 * score.count
    \/ score.sum * 10 = threshold * 10 * score.count /\ score.rounding >= 0

NoScore == [sum |-> 0, count |-> 1, rounding |-> 0]

\* ValidationResult._recalculate_overall_score on non-empty checks
recalculate_overall_score(checks, rounding) ==
    LET score == [sum |-> SumValues(checks), count |-> Cardinality(DOMAIN checks),
                  rounding |-> rounding]
    IN [overall_score |-> score,
        status |-> IF AtLeast(score, 8) THEN "passed"
                   ELSE IF AtLeast(score, 6) THEN "warning"
                   ELSE "failed"]

\* ValidationResult.get_weak_aspects
get_weak_aspects(checks) == {check_name \in DOMAIN checks : checks[check_name] < 6}

\* ValidationResult()
ValInit ==
    /\ vr_checks = EmptyDict
    /\ vr_overall_score = NoScore
    /\ vr_status = "pending"
    /\ vr_added = [check_name |-> None, score |-> 0]

ValIdle == ValInit

\* ValidationResult.add_check
add_check(check_name, score) ==
    /\ LET checks == DictSet(vr_checks, check_name, Clamp(score))
       IN \E rounding \in Roundings(checks) :
              LET made == recalculate_overall_score(checks, rounding)
              IN /\ vr_checks' = checks
                 /\ vr_overall_score' = made.overall_score
                 /\ vr_status' = made.status
    /\ vr_added' = [check_name |-> check_name, score |-> score]
    /\ UNCHANGED vrRest

ValNext == \E check_name \in CheckNames, score \in GivenScores : add_check(check_name, score)

\* --------------------------- EnsembleCoordinator (models/ensemble_coordinator.py)

\* the most responses one coordinate_responses call is given
MaxResponses == 3

\* the strategy names a caller passes; "unknown" is none of voting_strategies
\* and falls back to weighted voting
VotingStrategies == {"weighted", "majority", "unknown"}

ModelNames == <<"qwen-turbo", "qwen-plus", "qwen-max", "qwen-long">>

\* the responses parallel_inference builds: the i-th is of the i-th model, has
\* a confidence in tenths, and carries an 'error' key when the model failed
ResponseLists ==
    UNION {[1..n -> [failed : BOOLEAN, confidence : {0, 8}]] : n \in 0..MaxResponses}

response_of(responses, i) ==
    [model |-> ModelNames[i], failed |-> responses[i].failed,
     confidence |-> IF responses[i].failed THEN 0 ELSE responses[i].confidence]

RECURSIVE SumOver(_, _)
SumOver(responses, S) ==
    IF S = {} THEN 0
    ELSE LET i == CHOOSE x \in S : TRUE
         IN responses[i].confidence + SumOver(responses, S \ {i})

NoMetadata == [strategy_used |-> None, total_models |-> 0, successful_models |-> 0,
               failed_models |-> 0, average_confidence |-> <<0, 1>>,
               model_list |-> <<>>, attached |-> FALSE]

\* EnsembleCoordinator._generate_coordination_metadata; the average is the
\* sum over the count
generate_coordination_metadata(responses, strategy) ==
    LET successful_responses == {i \in DOMAIN responses : ~responses[i].failed}
        failed_responses == {i \in DOMAIN responses : responses[i].failed}
    IN [strategy_used |-> strategy,
        total_models |-> Len(responses),
        successful_models |-> Cardinality(successful_responses),
        failed_models |-> Cardinality(failed_responses),
        average_confidence |->
            IF successful_responses # {}
            THEN <<SumOver(responses, successful_responses),
                   Cardinality(successful_responses)>>
            ELSE <<0, 1>>,
        model_list |-> [i \in DOMAIN responses |-> ModelNames[i]],
        attached |-> TRUE]

\* the voting strategies: a dict with a response, a confidence, the ensemble
\* size and the voting method; _create_error_response when every model failed
voting_strategy(responses) ==
    IF \A i \in DOMAIN responses : responses[i].failed
    THEN {"response", "confidence", "ensemble_size", "voting_method", "error"}
    ELSE {"response", "confidence", "ensemble_size", "voting_method"}

\* EnsembleCoordinator._create_empty_response
create_empty_response ==
    [keys |-> {"response", "confidence", "ensemble_size", "voting_method", "error"},
     coordination_metadata |-> NoMetadata]

\* EnsembleCoordinator._format_single_response
format_single_response ==
    [keys |-> {"response", "confidence", "ensemble_size", "voting_method", "model",
               "processing_time"},
     coordination_metadata |-> NoMetadata]

\* coordinate_responses: the two early returns
ReturnsEarly(responses) == Len(responses) <= 1

\* EnsembleCoordinator.coordinate_responses
coordinate_responses(responses, strategy) ==
    IF ReturnsEarly(responses)
    THEN IF responses = <<>> THEN create_empty_response ELSE format_single_response
    ELSE [keys |-> voting_strategy(responses) \cup {"coordination_metadata"},
          coordination_metadata |-> generate_coordination_metadata(responses, strategy)]

NoEnsembleCall == [called |-> FALSE, responses |-> <<>>, strategy |-> None]

\* EnsembleCoordinator()
EnsInit ==
    /\ ens_call = NoEnsembleCall
    /\ ens_returned = [keys |-> {}, coordination_metadata |-> NoMetadata]

EnsIdle == EnsInit

\* a call of coordinate_responses(responses, question, strategy)
CoordinateResponses(responses, strategy) ==
    /\ ens_call' = [called |-> TRUE,
                    responses |-> [i \in DOMAIN responses |-> response_of(responses, i)],
                    strategy |-> strategy]
    /\ ens_returned' =
           coordinate_responses([i \in DOMAIN responses |-> response_of(responses, i)],
                                strategy)
    /\ UNCHANGED ensRest

EnsNext ==
    \E responses \in ResponseLists, strategy \in VotingStrategies :
        CoordinateResponses(responses, strategy)

\* ------------------------------------ ModelSelector (models/model_selector.py)

\* ModelsConfig.AVAILABLE_MODELS: speed_score, quality_score and
\* suitable_complexity of each model
AVAILABLE_MODELS ==
    ("qwen-turbo" :> [speed_score |-> 9, quality_score |-> 6,
                      suitable_complexity |-> {0, 1, 2}])
      @@ ("qwen-plus" :> [speed_score |-> 7, quality_score |-> 8,
                          suitable_complexity |-> {2, 3, 4}])
      @@ ("qwen-max" :> [speed_score |-> 5, quality_score |-> 10,
                         suitable_complexity |-> {3, 4, 5}])

ConfiguredModels == DOMAIN AVAILABLE_MODELS

\* the candidate lists a caller passes: configured models, none twice
CandidateLists ==
    {l \in UNION {[1..n -> ConfiguredModels] : n \in 0..Cardinality(ConfiguredModels)} :
        \A i, j \in DOMAIN l : i # j => l[i] # l[j]}

\* what _estimate_complexity makes of the question
QuestionComplexities == {1, 4}

Priorities == {"balanced", "speed"}

\* ModelSelector._filter_available_models
filter_available_models(models) == SelectSeq(models, LAMBDA model : model_availability[model])

\* ModelSelector._calculate_complexity_fit, times 10
calculate_complexity_fit(question_complexity, suitable_complexity) ==
    IF question_complexity \in suitable_complexity THEN 10
    ELSE LET min_distance ==
                 CHOOSE d \in 0..5 :
                     /\ \E c \in suitable_complexity : Abs(question_complexity - c) = d
                     /\ \A c \in suitable_complexity : Abs(question_complexity - c) >= d
         IN Max(0, 10 - 3 * min_distance)

\* ModelSelector._calculate_priority_score, times 100; the cost term is
\* max(0, 1.0 - cost_per_token * 1000), which is 0 for every configured model
calculate_priority_score(model_config, priority) ==
    IF priority = "speed" THEN 10 * model_config.speed_score
    ELSE IF priority = "quality" THEN 10 * model_config.quality_score
    ELSE 3 * model_config.speed_score + 5 * model_config.quality_score

\* ModelSelector._get_scoring_weights, in hundredths
get_scoring_weights(priority, role) ==
    IF priority = "speed" THEN [complexity |-> 20, performance |-> 60, priority |-> 20]
    ELSE IF priority = "quality" THEN [complexity |-> 30, performance |-> 40, priority |-> 30]
    ELSE IF role = "secondary" THEN [complexity |-> 10, performance |-> 70, priority |-> 20]
    ELSE [complexity |-> 25, performance |-> 50, priority |-> 25]

\* ModelSelector._score_models for one model, times 10000; the performance
\* score of an available model without history is 0.8
score_model(model_name, complexity, priority, role) ==
    LET weights == get_scoring_weights(priority, role)
        model_config == AVAILABLE_MODELS[model_name]
    IN 10 * weights.complexity
            * calculate_complexity_fit(complexity, model_config.suitable_complexity)
         + 10 * weights.performance * 8
         + weights.priority * calculate_priority_score(model_config, priority)

\* ModelSelector.select_best_model: max over the scores takes the first of
\* the highest-scored candidates
select_best_model(complexity, available_models, priority, role) ==
    IF available_models = <<>> THEN "qwen-turbo"
    ELSE LET candidate_models == filter_available_models(available_models)
             score(i) == score_model(candidate_models[i], complexity, priority, role)
         IN IF candidate_models = <<>> THEN available_models[1]
            ELSE candidate_models[CHOOSE i \in DOMAIN candidate_models :
                                      /\ \A j \in DOMAIN candidate_models : score(j) <= score(i)
                                      /\ \A j \in 1..(i - 1) : score(j) < score(i)]

\* ModelSelector.select_secondary_model
select_secondary_model(complexity, available_models, primary_model) ==
    select_best_model(complexity,
                      IF Contains(available_models, primary_model)
                      THEN SelectSeq(available_models, LAMBDA m : m # primary_model)
                      ELSE available_models,
                      "speed", "secondary")

NoSelection == [called |-> None, available_models |-> <<>>]

\* ModelSelector(): every configured model is available
SelInit ==
    /\ model_availability = [m \in ConfiguredModels |-> TRUE]
    /\ sel_call = NoSelection
    /\ sel_returned = None

SelIdle == SelInit

\* ModelSelector.set_model_availability
set_model_availability(model_name, available) ==
    /\ model_availability' = [model_availability EXCEPT ![model_name] = available]
    /\ UNCHANGED <<sel_call, sel_returned, selRest>>

\* a call of select_best_model(question, available_models, preferences)
SelectBestModel(complexity, available_models, priority) ==
    /\ sel_call' = [called |-> "select_best_model", available_models |-> available_models]
    /\ sel_returned' = select_best_model(complexity, available_models, priority, "primary")
    /\ UNCHANGED <<model_availability, selRest>>

\* a call of select_secondary_model(question, available_models, primary_model)
SelectSecondaryModel(complexity, available_models, primary_model) ==
    /\ sel_call' = [called |-> "select_secondary_model",
                    available_models |-> available_models]
    /\ sel_returned' = select_secondary_model(complexity, available_models, primary_model)
    /\ UNCHANGED <<model_availability, selRest>>

SelNext ==
    \/ \E model_name \in ConfiguredModels, available \in BOOLEAN :
           set_model_availability(model_name, available)
    \/ \E complexity \in QuestionComplexities, available_models \in CandidateLists,
          priority \in Priorities :
           SelectBestModel(complexity, available_models, priority)
    \/ \E complexity \in QuestionComplexities, available_models \in CandidateLists,
          primary_model \in ConfiguredModels :
           SelectSecondaryModel(complexity, available_models, primary_model)

\* ------------------------------------------------------------ tool registry
\* tools/tool_registry.py: declared dependencies, get_optimal_tool_order and
\* update_tool_performance.  Execution times are whole seconds and the
\* running average is the exact fraction num / den in lowest terms.

\* a tool name no registration ever carries
UnregisteredTool == "unit_converter"

\* the tools whose registration is repeated with declared dependencies
DeclaringTools == {"calculator", "translator", "web_search"}

\* BaseTool.dependencies of a tool handed to register_tool
DeclaredDependencies ==
    {<<>>, <<"calculator">>, <<"web_search">>, <<"web_search", "web_search">>,
     <<"translator", "calculator">>, <<UnregisteredTool>>}

\* the tool_names lists handed to get_optimal_tool_order
RequestedOrders ==
    {<<>>, <<"calculator">>, <<"calculator", "web_search">>,
     <<"web_search", "calculator">>, <<"calculator", "calculator", "web_search">>,
     <<"web_search", "translator", "calculator">>,
     <<"translator", "rag_retrieval", "calculator">>,
     <<"translator", UnregisteredTool>>}

\* the execution_time arguments of update_tool_performance
ExecutionTimes == {2, 4}

\* the tools update_tool_performance is called for
MeasuredTools == {"calculator", UnregisteredTool}

\* at most this many update_tool_performance calls are tracked over all tools
MaxExecutions == 3

RECURSIVE GCD(_, _)
GCD(a, b) == IF b = 0 THEN a ELSE GCD(b, a % b)

\* the fraction num / den in lowest terms
Fraction(num, den) ==
    IF num = 0 THEN [num |-> 0, den |-> 1]
    ELSE [num |-> num \div GCD(num, den), den |-> den \div GCD(num, den)]

\* ToolRegistry._initialize_performance_tracking_for_tool
initial_performance ==
    [average_execution_time |-> Fraction(0, 1), success_rate |-> Fraction(1, 1),
     error_count |-> 0, total_executions |-> 0]

\* ToolRegistry._build_dependency_graph: one key per requested registered
\* tool, its declared dependencies restricted to the requested names
build_dependency_graph(tool_names) ==
    [tool_name \in SeqToSet(tool_names) \cap reg_tools |->
        SelectSeq(tool_dependencies[tool_name], LAMBDA dep : Contains(tool_names, dep))]

\* the keys of that graph in insertion order
GraphOrder(tool_names) ==
    DictKeys(SelectSeq(tool_names, LAMBDA n : n \in reg_tools), <<>>)

\* how often a node is named in the dependency lists of the graph
RECURSIVE TimesNamed(_, _)
TimesNamed(s, x) ==
    IF s = <<>> THEN 0 ELSE (IF Head(s) = x THEN 1 ELSE 0) + TimesNamed(Tail(s), x)

RECURSIVE InDegreeOver(_, _, _)
InDegreeOver(order, graph, x) ==
    IF order = <<>> THEN 0
    ELSE TimesNamed(graph[Head(order)], x) + InDegreeOver(Tail(order), graph, x)

\* in_degree[neighbor] -= 1 for each neighbor of the popped node, in order,
\* appending to the queue the ones that reach zero
RECURSIVE DecrementNeighbors(_, _, _)
DecrementNeighbors(neighbors, in_degree, queue) ==
    IF neighbors = <<>> THEN [in_degree |-> in_degree, queue |-> queue]
    ELSE LET neighbor == Head(neighbors)
             lowered == [in_degree EXCEPT ![neighbor] = @ - 1]
         IN  DecrementNeighbors(Tail(neighbors), lowered,
                 IF lowered[neighbor] = 0 THEN Append(queue, neighbor) ELSE queue)

\* the while queue loop of _topological_sort
RECURSIVE SortLoop(_, _, _, _)
SortLoop(queue, result, in_degree, graph) ==
    IF queue = <<>> THEN result
    ELSE LET node == Head(queue)
             after == DecrementNeighbors(graph[node], in_degree, Tail(queue))
         IN  SortLoop(after.queue, Append(result, node), after.in_degree, graph)

\* ToolRegistry._topological_sort over the graph whose keys are in order:
\* in_degree[neighbor] += 1 raises KeyError for a neighbor that is no key
registry_topological_sort(order, graph) ==
    IF \E node \in DOMAIN graph : \E i \in DOMAIN graph[node] :
           graph[node][i] \notin DOMAIN graph
    THEN [raised |-> "KeyError", order |-> <<>>]
    ELSE LET in_degree == [node \in DOMAIN graph |-> InDegreeOver(order, graph, node)]
         IN  [raised |-> None,
              order |-> SortLoop(SelectSeq(order, LAMBDA node : in_degree[node] = 0),
                                 <<>>, in_degree, graph)]

\* ToolRegistry.get_optimal_tool_order
get_optimal_tool_order(tool_names) ==
    registry_topological_sort(GraphOrder(tool_names), build_dependency_graph(tool_names))

\* the record update_tool_performance leaves: failed calls are counted in
\* total_executions, the divisor of the running average
performance_after(perf, execution_time, success) ==
    LET total_execs == perf.total_executions + 1
        current_avg == perf.average_execution_time
        failures == IF success THEN perf.error_count ELSE perf.error_count + 1
    IN  [average_execution_time |->
             IF success
             THEN Fraction(current_avg.num * (total_execs - 1)
                               + execution_time * current_avg.den,
                           current_avg.den * total_execs)
             ELSE current_avg,
         success_rate |-> Fraction(total_execs - failures, total_execs),
         error_count |-> failures,
         total_executions |-> total_execs]

NoOrderCall == [called |-> FALSE, tool_names |-> <<>>]

\* ToolRegistry(): the four default tools, none declaring a dependency
RegInit ==
    /\ reg_tools = DefaultTools
    /\ tool_dependencies = [t \in DefaultTools |-> <<>>]
    /\ tool_performance = [t \in DefaultTools |-> initial_performance]
    /\ perf_log = [t \in DefaultTools |-> <<>>]
    /\ order_call = NoOrderCall
    /\ order_returned = [raised |-> None, order |-> <<>>]

RegIdle == RegInit

\* the number of tracked update_tool_performance calls
RECURSIVE TrackedCalls(_)
TrackedCalls(names) ==
    IF names = {} THEN 0
    ELSE LET n == CHOOSE x \in names : TRUE
         IN  Len(perf_log[n]) + TrackedCalls(names \ {n})

\* ToolRegistry.register_tool(tool) for a tool of the given name and
\* declared dependencies: a repeated name replaces the earlier registration
RegisterTool(name, dependencies) ==
    /\ reg_tools' = reg_tools \cup {name}
    /\ tool_dependencies' = [t \in reg_tools \cup {name} |->
                               IF t = name THEN dependencies ELSE tool_dependencies[t]]
    /\ tool_performance' = [t \in DOMAIN tool_performance \cup {name} |->
                              IF t = name THEN initial_performance
                              ELSE tool_performance[t]]
    /\ perf_log' = [t \in DOMAIN perf_log \cup {name} |->
                      IF t = name THEN <<>> ELSE perf_log[t]]
    /\ UNCHANGED <<order_call, order_returned, regRest>>

\* a call of get_optimal_tool_order(tool_names)
GetOptimalToolOrder(tool_names) ==
    /\ order_call' = [called |-> TRUE, tool_names |-> tool_names]
    /\ order_returned' = get_optimal_tool_order(tool_names)
    /\ UNCHANGED <<reg_tools, tool_dependencies, tool_performance, perf_log, regRest>>

\* ToolRegistry.update_tool_performance(tool_name, execution_time, success)
UpdateToolPerformance(tool_name, execution_time, success) ==
    /\ TrackedCalls(DOMAIN perf_log) < MaxExecutions
    /\ LET perf == IF tool_name \in DOMAIN tool_performance
                   THEN tool_performance[tool_name] ELSE initial_performance
           log == IF tool_name \in DOMAIN perf_log THEN perf_log[tool_name] ELSE <<>>
       IN  /\ tool_performance' =
                 [t \in DOMAIN tool_performance \cup {tool_name} |->
                     IF t = tool_name
                     THEN performance_after(perf, execution_time, success)
                     ELSE tool_performance[t]]
           /\ perf_log' =
                 [t \in DOMAIN perf_log \cup {tool_name} |->
                     IF t = tool_name
                     THEN Append(log, [execution_time |-> execution_time,
                                       success |-> success])
                     ELSE perf_log[t]]
    /\ UNCHANGED <<reg_tools, tool_dependencies, order_call, order_returned, regRest>>

\* registrations and order requests
RegNext ==
    \/ \E name \in DeclaringTools, dependencies \in DeclaredDependencies :
           RegisterTool(name, dependencies)
    \/ \E tool_names \in RequestedOrders : GetOptimalToolOrder(tool_names)

\* performance updates, and registrations that start a tool's tracking anew
PerfNext ==
    \/ \E tool_name \in MeasuredTools, execution_time \in ExecutionTimes,
          success \in BOOLEAN :
           UpdateToolPerformance(tool_name, execution_time, success)
    \/ \E name \in MeasuredTools : RegisterTool(name, <<>>)

\* retry_count set by each tool's constructor
retry_count(t) ==
    CASE t = "calculator" -> 1
      [] OTHER            -> 2

\* ------------------------------------------------- integration of tool results
\* tools/tool_orchestrator.py: the records _execute_tool_task and
\* _retry_tool_task return for a tool whose execute returns a result or
\* raises, and ResultIntegrator.integrate_tool_results over them.

\* what awaiting tool.execute does: return a result whose status is
\* "success", return a result whose status is "error", or raise
ToolOutcomes == {"success", "error", "raise"}

\* the outcomes of the execute calls of a retry, one per attempt
RetryOutcomes == [1..2 -> ToolOutcomes]

\* a tool the plan has not executed
NotExecuted == [held |-> FALSE, success |-> FALSE, status |-> None, via |-> None]

\* _execute_tool_task: whatever execute returns is a success; only an
\* exception leads to the record with success False
execute_tool_task(outcome) ==
    IF outcome = "raise"
    THEN [held |-> TRUE, success |-> FALSE, status |-> None, via |-> "first"]
    ELSE [held |-> TRUE, success |-> TRUE, status |-> outcome, via |-> "first"]

\* _retry_tool_task from the given attempt on: the first execute that returns
\* ends the loop with success True, an exception on the last attempt with
\* success False
RECURSIVE retry_tool_task(_, _, _)
retry_tool_task(attempt_no, max_retries, outcomes) ==
    IF attempt_no >= max_retries
    THEN [held |-> TRUE, success |-> FALSE, status |-> None, via |-> "retry"]
    ELSE IF outcomes[attempt_no + 1] # "raise"
    THEN [held |-> TRUE, success |-> TRUE, status |-> outcomes[attempt_no + 1],
          via |-> "retry"]
    ELSE retry_tool_task(attempt_no + 1, max_retries, outcomes)

\* execute_plan on a stage of one task: the task's record, replaced by the
\* record of _handle_failed_tasks when the task is not successful (it raised)
stage_result(t, first, retries) ==
    IF execute_tool_task(first).success THEN execute_tool_task(first)
    ELSE retry_tool_task(0, retry_count(t), retries)

critical_tools == {"web_search", "rag_retrieval"}

\* ResultIntegrator._calculate_integration_confidence, as an exact fraction
calculate_integration_confidence(successful, failed) ==
    LET total_tools == Cardinality(successful) + Cardinality(failed)
        critical_success == Cardinality(critical_tools \cap successful)
        critical_total == Cardinality(critical_tools \cap (successful \cup failed))
    IN  IF total_tools = 0 THEN Fraction(0, 1)
        ELSE IF critical_total > 0
        THEN Fraction(6 * Cardinality(successful) * critical_total
                          + 4 * critical_success * total_tools,
                      10 * total_tools * critical_total)
        ELSE Fraction(Cardinality(successful), total_tools)

\* ResultIntegrator.integrate_tool_results: the keys of individual_results
\* and of failed_tools, and the confidence
integrate_tool_results(execution) ==
    LET successful_results == {t \in DOMAIN execution : execution[t].held /\ execution[t].success}
        failed_results == {t \in DOMAIN execution : execution[t].held /\ ~execution[t].success}
    IN  [individual_results |-> successful_results,
         failed_tools |-> failed_results,
         confidence |-> calculate_integration_confidence(successful_results,
                                                         failed_results)]

NoIntegration ==
    [individual_results |-> {}, failed_tools |-> {}, confidence |-> Fraction(0, 1)]

IntegInit ==
    /\ integ_pc = "collect"
    /\ execution_results = [t \in DefaultTools |-> NotExecuted]
    /\ integrated = NoIntegration

IntegIdle == IntegInit

\* one stage of execute_plan, a single task of tool t, with its retries
ExecuteStage(t, first, retries) ==
    /\ integ_pc = "collect"
    /\ ~execution_results[t].held
    /\ execution_results' = [execution_results EXCEPT ![t] = stage_result(t, first, retries)]
    /\ UNCHANGED <<integ_pc, integrated, integRest>>

\* integrate_results once execute_plan has returned
IntegrateResults ==
    /\ integ_pc = "collect"
    /\ integrated' = integrate_tool_results(execution_results)
    /\ integ_pc' = "done"
    /\ UNCHANGED <<execution_results, integRest>>

\* the next orchestrate_tools call starts from an empty results dict
NextOrchestration ==
    /\ integ_pc = "done"
    /\ integ_pc' = "collect"
    /\ execution_results' = [t \in DefaultTools |-> NotExecuted]
    /\ integrated' = NoIntegration
    /\ UNCHANGED integRest

IntegNext ==
    \/ \E t \in DefaultTools, first \in ToolOutcomes, retries \in RetryOutcomes :
           ExecuteStage(t, first, retries)
    \/ IntegrateResults
    \/ NextOrchestration

\* ------------------------------------------------------ performance monitor
\* utils/metrics.py, RealTimePerformanceMonitor: start_monitoring creates a
\* task running _monitoring_loop, stop_monitoring clears the flag the loop
\* tests.  A task is "created" until the event loop first runs it, "sleeping"
\* in the asyncio.sleep that ends a pass of the loop body, "ended" once its
\* while test has failed; between two awaits of a sleep a task runs alone.

\* at most this many start_monitoring calls are followed
MaxLoops == 3

\* RealTimePerformanceMonitor.__init__
MonInit ==
    /\ monitoring_active = FALSE
    /\ loops = <<>>
    /\ current_status = [written_by |-> 0]

MonIdle == MonInit

\* RealTimePerformanceMonitor.start_monitoring: the flag is set and a new
\* task is created, whatever tasks exist
start_monitoring ==
    /\ Len(loops) < MaxLoops
    /\ monitoring_active' = TRUE
    /\ loops' = Append(loops, "created")
    /\ UNCHANGED <<current_status, monRest>>

\* RealTimePerformanceMonitor.stop_monitoring
stop_monitoring ==
    /\ monitoring_active' = FALSE
    /\ UNCHANGED <<loops, current_status, monRest>>

\* _monitoring_loop from its while test to the next sleep: with the flag set
\* _collect_metrics updates current_status and the task sleeps (5 seconds, or
\* 10 after an exception of the later calls); with the flag clear it returns
monitoring_loop(i) ==
    IF monitoring_active
    THEN /\ loops' = [loops EXCEPT ![i] = "sleeping"]
         /\ current_status' = [written_by |-> i]
    ELSE /\ loops' = [loops EXCEPT ![i] = "ended"]
         /\ UNCHANGED current_status

\* the event loop runs a created task for the first time
RunTask(i) ==
    /\ loops[i] = "created"
    /\ monitoring_loop(i)
    /\ UNCHANGED <<monitoring_active, monRest>>

\* asyncio.sleep returns in a task and the while test is made again
WakeUp(i) ==
    /\ loops[i] = "sleeping"
    /\ monitoring_loop(i)
    /\ UNCHANGED <<monitoring_active, monRest>>

MonNext ==
    \/ start_monitoring
    \/ stop_monitoring
    \/ \E i \in DOMAIN loops : RunTask(i)
    \/ \E i \in DOMAIN loops : WakeUp(i)

\* ------------------------------------------------------------ claims

GroupOf(groups, t) == CHOOSE g \in DOMAIN groups : Contains(groups[g], t)

InPlan(groups, t) == \E g \in DOMAIN groups : Contains(groups[g], t)

Occurrences(groups, t) ==
    Cardinality({<<g, i>> \in (DOMAIN groups) \X (1..max_parallel_tools) :
                    i \in DOMAIN groups[g] /\ groups[g][i] = t})

\* C5: whatever registered tools are requested, in whatever order, the plan
\* holds each of them exactly once and places every tool in a strictly later
\* group than each of its input dependencies that is in the plan too; so
\* web_search is never in a later group than calculator.
C5_DependenciesInEarlierGroups ==
    plan_pc = "planned" =>
        /\ \A t \in ToolNames :
              Occurrences(parallel_groups, t)
                  = (IF t \in registered /\ Contains(tool_requirements, t) THEN 1 ELSE 0)
        /\ \A t \in ToolNames : InPlan(parallel_groups, t) =>
              \A dep \in analyze_input_dependencies(t) :
                 InPlan(parallel_groups, dep) =>
                    GroupOf(parallel_groups, dep) < GroupOf(parallel_groups, t)
        /\ (InPlan(parallel_groups, "web_search") /\ InPlan(parallel_groups, "calculator")) =>
              GroupOf(parallel_groups, "web_search") <= GroupOf(parallel_groups, "calculator")

\* calculator requested before web_search, both planned, with a full first group
C5_Witness ==
    /\ plan_pc = "planned"
    /\ Contains(tool_requirements, "calculator")
    /\ Contains(tool_requirements, "web_search")
    /\ IndexOf(tool_requirements, "calculator") < IndexOf(tool_requirements, "web_search")
    /\ InPlan(parallel_groups, "calculator")
    /\ InPlan(parallel_groups, "web_search")
    /\ Len(parallel_groups) >= 2

\* ------------------------------------------------- tools and their parameters

\* the questions parameters are generated from: "" | whitespace only | a text |
\* a text of more than 5000 characters
QuestionKinds == {"empty", "blank", "text", "long"}

\* validate_params of each tool on the parameters _generate_tool_params builds
\* from the question (query, text and expression are the question itself when
\* it holds no arithmetic)
validate_params(t, q) ==
    CASE t = "web_search"    -> q \in {"text", "long"}
      [] t = "rag_retrieval" -> q \in {"text", "long"}
      [] t = "calculator"    -> q # "empty"
      [] t = "translator"    -> q = "text"

\* what awaiting tool.execute under asyncio.wait_for can do: return the tool's
\* result, or raise (the tool's own exception, or TimeoutError)
Outcomes == {"ok", "raise"}

\* str(e)
ErrorText(o) == "tool error"

\* the lists of distinct registered tools a caller can request
RECURSIVE DistinctLists(_)
DistinctLists(n) ==
    IF n = 0 THEN {<<>>}
    ELSE LET shorter == DistinctLists(n - 1) IN
         shorter \cup {Append(s, t) : s \in {x \in shorter : Len(x) = n - 1},
                                      t \in DefaultTools}

RequirementLists ==
    {s \in DistinctLists(MaxRequests) : \A i, j \in DOMAIN s : i # j => s[i] # s[j]}

NoTool == [t \in DefaultTools |-> None]

\* a key the dict does not hold
Absent == [success |-> FALSE, error |-> None, via |-> "absent"]

NoResults == [t \in DefaultTools |-> Absent]

ZeroTool == [t \in DefaultTools |-> 0]

\* ------------------------------------------------------ execute_plan, actions

OrchIdle ==
    /\ orch_pc = "off"
    /\ orch_question = "text"
    /\ plan_stages = <<>>
    /\ stage_idx = 0
    /\ task_status = NoTool
    /\ task_error = NoTool
    /\ task_return = NoResults
    /\ failed_tasks = <<>>
    /\ attempt = 0
    /\ retry_results = NoResults
    /\ results = NoResults
    /\ total_executions = ZeroTool
    /\ error_count = ZeroTool
    /\ execute_calls = ZeroTool
    /\ attempts = ZeroTool
    /\ settled = [t \in DefaultTools |-> "open"]

OrchInit ==
    /\ orch_pc = "idle"
    /\ orch_question = "text"
    /\ plan_stages = <<>>
    /\ stage_idx = 0
    /\ task_status = NoTool
    /\ task_error = NoTool
    /\ task_return = NoResults
    /\ failed_tasks = <<>>
    /\ attempt = 0
    /\ retry_results = NoResults
    /\ results = NoResults
    /\ total_executions = ZeroTool
    /\ error_count = ZeroTool
    /\ execute_calls = ZeroTool
    /\ attempts = ZeroTool
    /\ settled = [t \in DefaultTools |-> "open"]

StageTasks == IF stage_idx \in DOMAIN plan_stages THEN plan_stages[stage_idx] ELSE <<>>

\* the pc after a stage is over: the next stage of the for loop, or the return
AfterStage(i) == IF i < Len(plan_stages) THEN "gather" ELSE "done"

\* orchestrate_tools up to the first stage of execute_plan: the plan is
\* generated and every task created pending
orchestrate_tools(reqs, q) ==
    /\ orch_pc = "idle"
    /\ orch_question' = q
    /\ plan_stages' = generate_execution_plan(DefaultTools, reqs)
    /\ stage_idx' = 1
    /\ orch_pc' = IF plan_stages' = <<>> THEN "done" ELSE "gather"
    /\ task_status' = [t \in DefaultTools |->
                          IF Contains(reqs, t) THEN "pending" ELSE None]
    /\ UNCHANGED <<task_error, task_return, failed_tasks, attempt, retry_results,
                   results, total_executions, error_count, execute_calls, attempts,
                   settled, orchRest>>

\* ToolRegistry.update_tool_performance, the two counters
update_tool_performance(t, success) ==
    /\ total_executions' = [total_executions EXCEPT ![t] = @ + 1]
    /\ error_count' = [error_count EXCEPT ![t] = IF success THEN @ ELSE @ + 1]

\* the coroutines of a stage start in list order
NextToStart(t) ==
    \E i \in DOMAIN StageTasks :
        /\ StageTasks[i] = t
        /\ task_status[t] = "pending"
        /\ \A j \in 1..(i - 1) : task_status[StageTasks[j]] # "pending"

\* _execute_tool_task up to the await of tool.execute: a task whose parameters
\* fail validation raises ValueError and ends in the except branch
StartTask(t) ==
    /\ orch_pc = "gather"
    /\ NextToStart(t)
    /\ attempts' = [attempts EXCEPT ![t] = @ + 1]
    /\ IF validate_params(t, orch_question)
       THEN /\ task_status' = [task_status EXCEPT ![t] = "running"]
            /\ execute_calls' = [execute_calls EXCEPT ![t] = @ + 1]
            /\ UNCHANGED <<task_error, task_return, total_executions, error_count>>
       ELSE /\ task_status' = [task_status EXCEPT ![t] = "failed"]
            /\ task_error' = [task_error EXCEPT ![t] = "Invalid parameters"]
            /\ update_tool_performance(t, FALSE)
            /\ task_return' = [task_return EXCEPT ![t] =
                   [success |-> FALSE, error |-> "Invalid parameters", via |-> "first"]]
            /\ UNCHANGED execute_calls
    /\ UNCHANGED <<orch_pc, orch_question, plan_stages, stage_idx, failed_tasks, attempt,
                   retry_results, results, settled, orchRest>>

\* _execute_tool_task from the await on: the result, or the except branch
FinishTask(t, o) ==
    /\ orch_pc = "gather"
    /\ task_status[t] = "running"
    /\ IF o = "ok"
       THEN /\ task_status' = [task_status EXCEPT ![t] = "completed"]
            /\ update_tool_performance(t, TRUE)
            /\ task_return' = [task_return EXCEPT ![t] =
                   [success |-> TRUE, error |-> None, via |-> "first"]]
            /\ settled' = [settled EXCEPT ![t] = "succeeded"]
            /\ UNCHANGED task_error
       ELSE /\ task_status' = [task_status EXCEPT ![t] = "failed"]
            /\ task_error' = [task_error EXCEPT ![t] = ErrorText(o)]
            /\ update_tool_performance(t, FALSE)
            /\ task_return' = [task_return EXCEPT ![t] =
                   [success |-> FALSE, error |-> ErrorText(o), via |-> "first"]]
            /\ UNCHANGED settled
    /\ UNCHANGED <<orch_pc, orch_question, plan_stages, stage_idx, failed_tasks, attempt,
                   retry_results, results, execute_calls, attempts, orchRest>>

\* ToolTask.is_successful
is_successful(t) == task_status[t] = "completed" /\ task_error[t] = None

RetriesSkipped(failed) == FALSE

\* `if failed_tasks:` of execute_plan: the failed tasks are handled before the
\* loop goes on
RetriesAwaited(failed) == failed # <<>>

\* execute_plan once the stage's coroutines are over: their returns go into
\* results, the failed tasks to _handle_failed_tasks
GatherDone ==
    /\ orch_pc = "gather"
    /\ \A i \in DOMAIN StageTasks : task_status[StageTasks[i]] \in {"completed", "failed"}
    /\ results' = [t \in DefaultTools |->
                      IF Contains(StageTasks, t) THEN task_return[t] ELSE results[t]]
    /\ LET failed == SelectSeq(StageTasks, LAMBDA t : ~is_successful(t)) IN
       IF RetriesAwaited(failed)
       THEN /\ orch_pc' = "retry"
            /\ failed_tasks' = failed
            /\ attempt' = 0
            /\ retry_results' = NoResults
            /\ UNCHANGED stage_idx
       ELSE /\ orch_pc' = AfterStage(stage_idx)
            /\ stage_idx' = stage_idx + 1
            /\ UNCHANGED <<failed_tasks, attempt, retry_results>>
    /\ UNCHANGED <<orch_question, plan_stages, task_status, task_error, task_return,
                   total_executions, error_count, execute_calls, attempts, settled,
                   orchRest>>

IsLastAttemptOffByOne(a, max_retries) == a = max_retries

\* `if attempt == max_retries - 1` of _retry_tool_task
IsLastAttempt(a, max_retries) == a = max_retries - 1

\* _handle_failed_tasks on its next task: one pass of the loop of
\* _retry_tool_task (tool.execute called with no validation and no registry
\* update), or the not-retried record of a tool with no retry_count
RetryStep(o) ==
    /\ orch_pc = "retry"
    /\ failed_tasks # <<>>
    /\ LET t == Head(failed_tasks) IN
       IF retry_count(t) > 0
       THEN /\ execute_calls' = [execute_calls EXCEPT ![t] = @ + 1]
            /\ attempts' = [attempts EXCEPT ![t] = @ + 1]
            /\ IF o = "ok"
               THEN /\ retry_results' = [retry_results EXCEPT ![t] =
                           [success |-> TRUE, error |-> None, via |-> "retry"]]
                    /\ failed_tasks' = Tail(failed_tasks)
                    /\ attempt' = 0
                    /\ settled' = [settled EXCEPT ![t] = "succeeded"]
               ELSE IF IsLastAttempt(attempt, retry_count(t))
               THEN /\ retry_results' = [retry_results EXCEPT ![t] =
                           [success |-> FALSE, error |-> ErrorText(o), via |-> "retry"]]
                    /\ failed_tasks' = Tail(failed_tasks)
                    /\ attempt' = 0
                    /\ settled' = [settled EXCEPT ![t] = "exhausted"]
               ELSE /\ attempt' = attempt + 1
                    /\ UNCHANGED <<retry_results, failed_tasks, settled>>
       ELSE /\ retry_results' = [retry_results EXCEPT ![t] =
                   [success |-> FALSE, error |-> task_error[t], via |-> "not retried"]]
            /\ failed_tasks' = Tail(failed_tasks)
            /\ settled' = [settled EXCEPT ![t] = "exhausted"]
            /\ UNCHANGED <<attempt, execute_calls, attempts>>
    /\ UNCHANGED <<orch_pc, orch_question, plan_stages, stage_idx, task_status,
                   task_error, task_return, results, total_executions, error_count,
                   orchRest>>

\* execute_plan after _handle_failed_tasks returned: results.update(retry_results)
RetryDone ==
    /\ orch_pc = "retry"
    /\ failed_tasks = <<>>
    /\ results' = [t \in DefaultTools |->
                      IF retry_results[t] # Absent THEN retry_results[t] ELSE results[t]]
    /\ orch_pc' = AfterStage(stage_idx)
    /\ stage_idx' = stage_idx + 1
    /\ UNCHANGED <<orch_question, plan_stages, task_status, task_error, task_return,
                   failed_tasks, attempt, retry_results, total_executions, error_count,
                   execute_calls, attempts, settled, orchRest>>

\* a caller's orchestrate_tools(question, tool_requirements, knowledge_context)
CallOrchestrator ==
    /\ orch_pc = "idle"
    /\ \E reqs \in RequirementLists, q \in QuestionKinds : orchestrate_tools(reqs, q)

OrchNext ==
    \/ CallOrchestrator
    \/ \E t \in DefaultTools : StartTask(t)
    \/ \E t \in DefaultTools, o \in Outcomes : FinishTask(t, o)
    \/ GatherDone
    \/ \E o \in Outcomes : RetryStep(o)
    \/ RetryDone

Init == OrchInit /\ PlanIdle /\ PipeIdle /\ CacheIdle /\ MgrIdle /\ ResIdle
    /\ SchedIdle /\ MainIdle /\ ValIdle /\ EnsIdle /\ SelIdle /\ RegIdle
    /\ IntegIdle /\ MonIdle

Spec == Init /\ [][OrchNext]_vars

\* tool.execute returns, raises or times out, and the event loop resumes the
\* coroutine that awaits it
FairSpec == Spec /\ WF_vars(OrchNext)

InitPlan == PlanInit /\ OrchIdle /\ PipeIdle /\ CacheIdle /\ MgrIdle /\ ResIdle
    /\ SchedIdle /\ MainIdle /\ ValIdle /\ EnsIdle /\ SelIdle /\ RegIdle
    /\ IntegIdle /\ MonIdle

SpecPlan == InitPlan /\ [][PlanNext]_vars

InitPipe == PipeInit /\ PlanIdle /\ OrchIdle /\ CacheIdle /\ MgrIdle /\ ResIdle
    /\ SchedIdle /\ MainIdle /\ ValIdle /\ EnsIdle /\ SelIdle /\ RegIdle
    /\ IntegIdle /\ MonIdle

SpecPipe == InitPipe /\ [][PipeNext]_vars

InitCache == CacheInit /\ PlanIdle /\ OrchIdle /\ PipeIdle /\ MgrIdle /\ ResIdle
    /\ SchedIdle /\ MainIdle /\ ValIdle /\ EnsIdle /\ SelIdle /\ RegIdle
    /\ IntegIdle /\ MonIdle

SpecCache == InitCache /\ [][CacheNext]_vars

InitMgr == MgrInit /\ PlanIdle /\ OrchIdle /\ PipeIdle /\ CacheIdle /\ ResIdle
    /\ SchedIdle /\ MainIdle /\ ValIdle /\ EnsIdle /\ SelIdle /\ RegIdle
    /\ IntegIdle /\ MonIdle

SpecMgr == InitMgr /\ [][MgrNext]_vars

InitRes == ResInit /\ PlanIdle /\ OrchIdle /\ PipeIdle /\ CacheIdle /\ MgrIdle
    /\ SchedIdle /\ MainIdle /\ ValIdle /\ EnsIdle /\ SelIdle /\ RegIdle
    /\ IntegIdle /\ MonIdle

SpecRes == InitRes /\ [][ResNext]_vars

InitSched == SchedInit /\ PlanIdle /\ OrchIdle /\ PipeIdle /\ CacheIdle /\ MgrIdle
    /\ ResIdle /\ MainIdle /\ ValIdle /\ EnsIdle /\ SelIdle /\ RegIdle
    /\ IntegIdle /\ MonIdle

SpecSched == InitSched /\ [][SchedNext]_vars

InitRouter == RouterInit /\ PlanIdle /\ OrchIdle /\ PipeIdle /\ CacheIdle /\ MgrIdle
    /\ ResIdle /\ MainIdle /\ ValIdle /\ EnsIdle /\ SelIdle /\ RegIdle /\ IntegIdle /\ MonIdle

SpecRouter == InitRouter /\ [][RouterNext]_vars

InitMain == MainInit /\ PlanIdle /\ OrchIdle /\ PipeIdle /\ CacheIdle /\ MgrIdle
    /\ ResIdle /\ SchedIdle /\ ValIdle /\ EnsIdle /\ SelIdle /\ RegIdle
    /\ IntegIdle /\ MonIdle

SpecMain == InitMain /\ [][MainNext]_vars

InitVal == ValInit /\ PlanIdle /\ OrchIdle /\ PipeIdle /\ CacheIdle /\ MgrIdle
    /\ ResIdle /\ SchedIdle /\ MainIdle /\ EnsIdle /\ SelIdle /\ RegIdle
    /\ IntegIdle /\ MonIdle

SpecVal == InitVal /\ [][ValNext]_vars

InitEns == EnsInit /\ PlanIdle /\ OrchIdle /\ PipeIdle /\ CacheIdle /\ MgrIdle
    /\ ResIdle /\ SchedIdle /\ MainIdle /\ ValIdle /\ SelIdle /\ RegIdle
    /\ IntegIdle /\ MonIdle

SpecEns == InitEns /\ [][EnsNext]_vars

InitSel == SelInit /\ PlanIdle /\ OrchIdle /\ PipeIdle /\ CacheIdle /\ MgrIdle
    /\ ResIdle /\ SchedIdle /\ MainIdle /\ ValIdle /\ EnsIdle /\ RegIdle
    /\ IntegIdle /\ MonIdle

SpecSel == InitSel /\ [][SelNext]_vars

InitReg == RegInit /\ PlanIdle /\ OrchIdle /\ PipeIdle /\ CacheIdle /\ MgrIdle
    /\ ResIdle /\ SchedIdle /\ MainIdle /\ ValIdle /\ EnsIdle /\ SelIdle
    /\ IntegIdle /\ MonIdle

SpecReg == InitReg /\ [][RegNext]_vars

SpecPerf == InitReg /\ [][PerfNext]_vars

InitInteg == IntegInit /\ PlanIdle /\ OrchIdle /\ PipeIdle /\ CacheIdle /\ MgrIdle
    /\ ResIdle /\ SchedIdle /\ MainIdle /\ ValIdle /\ EnsIdle /\ SelIdle
    /\ RegIdle /\ MonIdle

SpecInteg == InitInteg /\ [][IntegNext]_vars

InitMon == MonInit /\ PlanIdle /\ OrchIdle /\ PipeIdle /\ CacheIdle /\ MgrIdle
    /\ ResIdle /\ SchedIdle /\ MainIdle /\ ValIdle /\ EnsIdle /\ SelIdle
    /\ RegIdle /\ IntegIdle

SpecMon == InitMon /\ [][MonNext]_vars

\* ---------------------------------------------------- claims, plan execution

Planned(t) == \E g \in DOMAIN plan_stages : Contains(plan_stages[g], t)

StageOf(t) == CHOOSE g \in DOMAIN plan_stages : Contains(plan_stages[g], t)

Started(t) == task_status[t] \in {"running", "completed", "failed"}

\* C1: no task of a later group has started while a task of an earlier group
\* has still an attempt, first or retry, to come or under way.
C1_GroupsInSequence ==
    \A t, u \in DefaultTools :
        (Planned(t) /\ Planned(u) /\ StageOf(u) < StageOf(t) /\ Started(t))
            => settled[u] # "open"

\* a task of the second group runs after a task of the first group was retried
C1_Witness ==
    \E t, u \in DefaultTools :
        /\ Planned(t) /\ Planned(u) /\ StageOf(u) < StageOf(t)
        /\ task_status[t] = "running"
        /\ attempts[u] >= 2

\* C2: a tool whose parameters fail validation is never executed and ends
\* with the invalid-parameters failure as its result.
C2_InvalidNeverExecuted ==
    \A t \in DefaultTools :
        (Planned(t) /\ ~validate_params(t, orch_question)) =>
            /\ execute_calls[t] = 0
            /\ orch_pc = "done" => results[t].error = "Invalid parameters"

\* C3: after the plan execution the registry's total_executions of each tool
\* has grown by the number of attempts made to run it.
C3_EveryAttemptRecorded ==
    orch_pc = "done" =>
        \A t \in DefaultTools : total_executions[t] = attempts[t]

\* C4: a tool is executed at most 1 + retry_count times; when execute_plan
\* returns, every planned tool has a result, a failure for a tool none of
\* whose attempts succeeded; and execute_plan does return.
C4_RetriesBoundedAndIsolated ==
    /\ [](\A t \in DefaultTools : execute_calls[t] <= 1 + retry_count(t))
    /\ [](orch_pc = "done" =>
            \A t \in DefaultTools : Planned(t) =>
                /\ results[t] # Absent
                /\ settled[t] = "exhausted" => ~results[t].success
                /\ settled[t] = "succeeded" => results[t].success)
    /\ <>(orch_pc = "done")

\* one tool used up its attempts and failed, a sibling of the plan succeeded
C4_Witness ==
    /\ orch_pc = "done"
    /\ \E t, u \in DefaultTools :
          /\ Planned(t) /\ Planned(u) /\ t # u
          /\ execute_calls[t] = 1 + retry_count(t)
          /\ ~results[t].success
          /\ results[u].success

\* ------------------------------------------------------- claims, pipeline

KnownStages(stages) == SelectSeq(stages, LAMBDA n : n \in stage_processors)

UnknownStages(stages) == SelectSeq(stages, LAMBDA n : n \notin stage_processors)

Visited == SubSeq(route_stages, 1, stage_pos - 1)

\* C6: an unknown stage name adds an error and the loop goes on: while no
\* stage has raised, the stages run are the known stages of the route so far,
\* in route order, and the errors the unknown ones; the result is returned
\* after the whole route, and with an unknown stage in it success is false.
C6_UnknownStageDoesNotHalt ==
    /\ (pipe_pc \in {"stages", "done"} /\ raised_at = 0) =>
          /\ ran = KnownStages(Visited)
          /\ errors = UnknownStages(Visited)
    /\ (pipe_pc = "done" /\ raised_at = 0) =>
          /\ stage_pos = Len(route_stages) + 1
          /\ pipeline_result.errors = UnknownStages(route_stages)
    /\ (pipe_pc = "done" /\ UnknownStages(route_stages) # <<>>) =>
          ~pipeline_result.success

\* the route starts with an unknown stage and a later stage built a response
C6_Witness ==
    /\ pipe_pc = "done"
    /\ raised_at = 0
    /\ Len(route_stages) >= 2
    /\ route_stages[1] \notin stage_processors
    /\ pipeline_result.response # <<>>
    /\ Len(ran) = Len(route_stages) - 1

\* C7: a route whose only stage is unknown returns success false and an
\* error field that is not None.
C7_UnknownStageSetsError ==
    (pipe_pc = "done" /\ Len(route_stages) = 1
        /\ route_stages[1] \notin stage_processors) =>
        /\ ~pipeline_result.success
        /\ pipeline_result.error # None

\* C8: when a stage raises, no later stage runs and the call returns the
\* failure result: success false, confidence 0, the exception text as error.
C8_RaisingStageReturnsFailure ==
    raised_at > 0 =>
        /\ pipe_pc = "done"
        /\ pipeline_result.returned
        /\ ~pipeline_result.success
        /\ pipeline_result.confidence[1] = 0
        /\ pipeline_result.error = ExceptionText
        /\ ran = KnownStages(SubSeq(route_stages, 1, raised_at))

\* a stage raised after an earlier stage had set a confidence, with stages left
C8_Witness ==
    /\ raised_at > 1
    /\ raised_at < Len(route_stages)
    /\ Positive(confidence)
    /\ pipeline_result.returned

\* C9: the route preprocessing, simple_reasoning, basic_validation on a
\* non-empty question returns success, a confidence above 0 and a response of
\* more than 10 characters.
C9_SimpleRouteSucceeds ==
    (pipe_pc = "done"
        /\ route_stages = <<"preprocessing", "simple_reasoning", "basic_validation">>
        /\ question # NotAString /\ question # <<>>) =>
        /\ pipeline_result.success
        /\ Positive(pipeline_result.confidence)
        /\ Len(pipeline_result.response) > 10

\* the simple route returned for a question of whitespace only
C9_Witness ==
    /\ pipe_pc = "done"
    /\ route_stages = <<"preprocessing", "simple_reasoning", "basic_validation">>
    /\ question = <<" ">>
    /\ pipeline_result.success
    /\ validation_results["basic_check"]

\* --------------------------------------------------------- claims, cache

LogKeys(from) == {set_log[i].key : i \in from..Len(set_log)}

\* C10: after max_size + 1 sets of distinct keys into a new memory cache, one
\* key is gone, the first one set (the least recently accessed); from then
\* on a get of it returns None and a get of any other of the keys, before its
\* expiry, the value that was set.
C10_EvictsLeastRecentlyAccessed ==
    (scenario \in {"sets", "gets"} /\ Len(set_log) = max_size + 1) =>
        /\ scenario = "sets" => DOMAIN cache = LogKeys(2)
        /\ get_returns(set_log[1].key) = Missing
        /\ \A i \in 2..Len(set_log) :
              now <= set_log[i].at + EffectiveTTL(set_log[i].ttl)
                  => get_returns(set_log[i].key) = set_log[i].value

\* max_size + 1 keys were set at different times, then read; the cache is
\* full and the last key set is still there to be read
C10_Witness ==
    /\ scenario = "gets"
    /\ max_size >= 2
    /\ set_log[1].at < set_log[2].at
    /\ Cardinality(DOMAIN cache) = max_size
    /\ get_returns(set_log[3].key) = set_log[3].value

\* C11: a key set with ttl 0 is absent on the next get: right after such a
\* set (nothing but the clock has moved since), a get of the key returns None.
C11_ZeroTTLAbsentOnNextGet ==
    (scenario = "sets" /\ set_log # <<>> /\ set_log[Len(set_log)].ttl = "0") =>
        get_returns(set_log[Len(set_log)].key) = Missing

\* ---------------------------------------------------- claims, CacheManager

OtherTier(level) == IF level = "memory" THEN "persistent" ELSE "memory"

\* what the last get could read, before it ran, in the tier named
FoundIn(level) == IF level = "memory" THEN last_get.memory ELSE last_get.persistent

\* C12: a get counts exactly once, a hit if some tier held an unexpired value
\* of the key and a miss if none did; with a level that names a tier it
\* returns the value of that tier if there is one and of the other tier if
\* not, and a value found only in the other tier is in the requested tier
\* after the call.
C12_GetFallsThroughAndCounts ==
    last_get.called =>
        /\ last_get.hits + last_get.misses = 1
        /\ last_get.hits = 1
              <=> (last_get.memory # Missing \/ last_get.persistent # Missing)
        /\ (last_get.returned # Missing) <=> (last_get.hits = 1)
        /\ Contains(cache_levels, last_get.level) =>
              /\ last_get.requested = FoundIn(last_get.level)
              /\ last_get.returned =
                    (IF last_get.requested # Missing THEN last_get.requested
                     ELSE FoundIn(OtherTier(last_get.level)))
              /\ (last_get.requested = Missing
                      /\ FoundIn(OtherTier(last_get.level)) # Missing)
                    => last_get.after = FoundIn(OtherTier(last_get.level))

\* after a miss, a get of the memory tier found the key only in the
\* persistent tier and left it in the memory tier
C12_Witness ==
    /\ last_get.called
    /\ last_get.level = "memory"
    /\ last_get.requested = Missing
    /\ last_get.persistent # Missing
    /\ last_get.after = last_get.persistent
    /\ hit_count = 1
    /\ miss_count = 1

\* ------------------------------------------------- claims, ResourceManager

\* C13: whatever allocations and releases of non-negative amounts are made,
\* the usage of every resource is between 0 and its limit; an allocation is
\* admitted exactly when every required amount fits in what is left, an
\* admitted one adds its amounts and a denied one leaves the usage as it was.
C13_UsageWithinLimits ==
    /\ \A r \in Resources :
          current_usage[r] >= 0 /\ current_usage[r] <= resource_limits[r]
    /\ last_call.op = "allocate" =>
          /\ last_call.allocated
                <=> \A r \in RequiredKeys :
                       last_call.required[r] <= resource_limits[r] - last_call.before[r]
          /\ ~last_call.allocated => current_usage = last_call.before
          /\ last_call.allocated =>
                \A r \in Resources :
                    current_usage[r] = last_call.before[r]
                        + (IF r \in RequiredKeys THEN last_call.required[r] ELSE 0)

\* an allocation was denied for its memory alone: its cpu amount would fit
C13_Witness ==
    /\ last_call.op = "allocate"
    /\ ~last_call.allocated
    /\ last_call.required["cpu_cores"] > 0
    /\ last_call.required["cpu_cores"]
          <= resource_limits["cpu_cores"] - last_call.before["cpu_cores"]
    /\ last_call.required["memory_gb"]
          > resource_limits["memory_gb"] - last_call.before["memory_gb"]

\* C14: once _improve_response has run, the route process_question holds has
\* the stage list and the model preference it had before the call.
C14_ImproveLeavesRouteAlone ==
    improved => RouteNow(processing_route) = route_before

\* C15: when a step of process_question raises (classification, routing,
\* pipeline execution, validation, improvement or learning), the call returns
\* a result with success false, confidence 0 and an error text; no exception
\* reaches the caller.
C15_ProcessQuestionNeverRaises ==
    (sched_pc = "done" /\ raised_in # None) =>
        /\ final_result.outcome = "returned"
        /\ final_result.success = FALSE
        /\ final_result.confidence = Zero
        /\ final_result.error # None

\* learning raised after an improvement had produced a result
C15_Witness ==
    /\ sched_pc = "done"
    /\ raised_in = "learn"
    /\ improved
    /\ final_result = handle_processing_error(ErrorMessage)

\* C16: every turn of the loop on a line that is no exit keyword has printed
\* the response, the confidence and the processing time of the result, whether
\* processing succeeded or failed, and the loop is back at the prompt.
C16_EveryTurnPrintsTheResult ==
    \A i \in DOMAIN turns :
        /\ Len(turns[i].printed) = 3
        /\ turns[i].printed[1].label = "response"
        /\ turns[i].printed[2].label = "confidence"
        /\ turns[i].printed[3].label = "processing_time"

\* C17: the recommended_strategy of a classification is fast_track when the
\* urgency analysis reports level high and the complexity is at most 2,
\* otherwise comprehensive when the complexity is at least 4, otherwise
\* tool_assisted when tools are required, otherwise standard.
C17_StrategyFollowsUrgencyAndComplexity ==
    classification # NoClassification =>
        classification.recommended_strategy =
            IF /\ classification.urgency_level.urgency_level = "high"
               /\ classification.complexity_level <= 2
            THEN "fast_track"
            ELSE IF classification.complexity_level >= 4 THEN "comprehensive"
            ELSE IF classification.requires_tools THEN "tool_assisted"
            ELSE "standard"

\* C18: the route create_processing_pipeline returns for a classification
\* whose recommended_strategy is fast_track has a timeout of at most 10 and
\* model preference speed, whatever the urgency level, the domain type, the
\* complexity and the system status.
C18_FastTrackIsFast ==
    (processing_route # NoRoute /\ classification.recommended_strategy = "fast_track") =>
        /\ processing_route.timeout <= 10
        /\ processing_route.model_preference = "speed"

\* the stages of `wanted` occur in `stages` in that relative order
RECURSIVE InOrder(_, _)
InOrder(stages, wanted) ==
    IF wanted = <<>> THEN TRUE
    ELSE IF stages = <<>> THEN FALSE
    ELSE IF Head(stages) = Head(wanted) THEN InOrder(Tail(stages), Tail(wanted))
    ELSE InOrder(Tail(stages), wanted)

ToolStages == <<"tool_planning", "tool_execution", "result_integration">>

\* C19: the route create_processing_pipeline returns for a classification
\* whose recommended_strategy is tool_assisted holds tool_planning,
\* tool_execution and result_integration, in that relative order, whichever
\* candidate was selected.
C19_ToolAssistedKeepsToolStages ==
    (processing_route # NoRoute /\ classification.recommended_strategy = "tool_assisted") =>
        InOrder(stage_lists[processing_route.stages], ToolStages)

\* a tool_assisted classification for which the resource-efficient variant
\* was selected
C19_Witness ==
    /\ processing_route # NoRoute
    /\ classification.recommended_strategy = "tool_assisted"
    /\ processing_route.stages = "efficient"
    /\ ~processing_route.parallel_execution

\* C20: after any calls of create_processing_pipeline and any improvement
\* re-executions, each of the four route templates has its initial stage
\* list, timeout, parallel flag and model preference, and an empty context.
C20_TemplatesNeverModified ==
    /\ route_templates = initialize_route_templates
    /\ \A s \in Strategies :
           /\ stage_lists[route_templates[s].stages] = TemplateStages[s]
           /\ contexts[route_templates[s].context] = {}

\* a specialized route was returned, with its context filled in, and an
\* improvement has appended a stage to it
C20_Witness ==
    /\ processing_route # NoRoute
    /\ processing_route.stages # "base"
    /\ contexts[processing_route.context] # {}
    /\ improved
    /\ Contains(stage_lists[processing_route.stages], "information_gathering")

\* ------------------------------------------------ claims, ValidationResult

\* C21: after every add_check the overall score is the mean of the clamped
\* scores of the checks recorded (the sum over the count, as float division
\* rounds it), the status is passed when the overall score is at least 0.8,
\* warning when it is at least 0.6 and failed otherwise, and get_weak_aspects
\* gives exactly the checks with a score below 0.6.
C21_OverallScoreIsMeanOfChecks ==
    vr_added.check_name # None =>
        /\ \A c \in DOMAIN vr_checks : vr_checks[c] >= 0 /\ vr_checks[c] <= 10
        /\ vr_checks[vr_added.check_name] =
               (IF vr_added.score < 0 THEN 0
                ELSE IF vr_added.score > 10 THEN 10 ELSE vr_added.score)
        /\ vr_overall_score.sum = SumValues(vr_checks)
        /\ vr_overall_score.count = Cardinality(DOMAIN vr_checks)
        /\ vr_status = (IF AtLeast(vr_overall_score, 8) THEN "passed"
                        ELSE IF AtLeast(vr_overall_score, 6) THEN "warning"
                        ELSE "failed")
        /\ vr_status \in {"passed", "warning", "failed"}
        /\ get_weak_aspects(vr_checks) = {c \in DOMAIN vr_checks : vr_checks[c] * 10 < 60}

\* scores 0.9, 0.9 and 0.3: overall score 2.1 / 3, status warning, one weak
\* aspect, the last score having been given above 1.0 or below 0.0 before
C21_Witness ==
    /\ DOMAIN vr_checks = CheckNames
    /\ vr_checks["basic_quality"] = 9
    /\ vr_checks["consistency"] = 9
    /\ vr_checks["completeness"] = 3
    /\ vr_overall_score.sum = 21
    /\ vr_overall_score.count = 3
    /\ vr_status = "warning"
    /\ get_weak_aspects(vr_checks) = {"completeness"}

\* ---------------------------------------------- claims, EnsembleCoordinator

\* C22: the record coordinate_responses returns carries the coordination
\* metadata (strategy used, total, successful and failed model counts, the
\* averages, the model list), for every number of responses, zero and one
\* included.
C22_MetadataAlwaysAttached ==
    ens_call.called =>
        /\ "coordination_metadata" \in ens_returned.keys
        /\ ens_returned.coordination_metadata.attached
        /\ ens_returned.coordination_metadata.strategy_used = ens_call.strategy
        /\ ens_returned.coordination_metadata.total_models = Len(ens_call.responses)
        /\ ens_returned.coordination_metadata.successful_models
               + ens_returned.coordination_metadata.failed_models
                   = Len(ens_call.responses)
        /\ Len(ens_returned.coordination_metadata.model_list) = Len(ens_call.responses)

\* ---------------------------------------------------- claims, ModelSelector

\* C23: the model select_best_model returns (select_secondary_model calls it)
\* is never one whose availability flag is false, for any candidate list and
\* any earlier set_model_availability calls.
C23_NeverSelectsUnavailable ==
    [][\A complexity \in QuestionComplexities, available_models \in CandidateLists :
          (\/ \E priority \in Priorities :
                  SelectBestModel(complexity, available_models, priority)
           \/ \E primary_model \in ConfiguredModels :
                  SelectSecondaryModel(complexity, available_models, primary_model))
              => model_availability[sel_returned']]_vars

\* ------------------------------------------------------ claims, tool registry

\* the registered tools among the requested names
RequestedRegistered(tool_names) == SeqToSet(tool_names) \cap reg_tools

\* the declared dependencies of a tool that are requested registered tools
RequestedDependencies(t, tool_names) ==
    SeqToSet(tool_dependencies[t]) \cap RequestedRegistered(tool_names)

\* d is reached from t along at most n declared dependencies
RECURSIVE DependsOn(_, _, _, _)
DependsOn(t, d, n, tool_names) ==
    /\ n > 0
    /\ \E e \in RequestedDependencies(t, tool_names) :
           e = d \/ DependsOn(e, d, n - 1, tool_names)

\* no requested tool depends on itself, directly or through others
AcyclicDependencies(tool_names) ==
    \A t \in RequestedRegistered(tool_names) :
        ~DependsOn(t, t, Cardinality(RequestedRegistered(tool_names)), tool_names)

\* the returned order has every requested registered tool once, after its
\* declared dependencies
DependenciesFirst(tool_names, returned) ==
    /\ returned.raised = None
    /\ \A t \in RequestedRegistered(tool_names) : TimesNamed(returned.order, t) = 1
    /\ Len(returned.order) = Cardinality(RequestedRegistered(tool_names))
    /\ \A t \in RequestedRegistered(tool_names) :
           \A d \in RequestedDependencies(t, tool_names) :
               IndexOf(returned.order, d) < IndexOf(returned.order, t)

\* C24: for any acyclic set of declared dependencies, the order returned by
\* get_optimal_tool_order contains every requested registered tool exactly
\* once and lists each tool after all of its declared dependencies that are
\* in the requested set.
C24_OrderListsDependenciesFirst ==
    [][(/\ tool_dependencies' = tool_dependencies
        /\ reg_tools' = reg_tools
        /\ order_call'.called
        /\ AcyclicDependencies(order_call'.tool_names))
            => DependenciesFirst(order_call'.tool_names, order_returned')]_vars

\* the successful calls tracked for a tool
SuccessfulCalls(t) == SelectSeq(perf_log[t], LAMBDA c : c.success)

RECURSIVE TotalTime(_)
TotalTime(calls) ==
    IF calls = <<>> THEN 0 ELSE Head(calls).execution_time + TotalTime(Tail(calls))

\* C25: after any sequence of update_tool_performance calls for a tool, its
\* average_execution_time is the mean of the execution times of the
\* successful calls only; failed calls change neither the numerator nor the
\* divisor of the average.
C25_AverageOverSuccessfulCallsOnly ==
    \A t \in DOMAIN tool_performance :
        SuccessfulCalls(t) # <<>> =>
            tool_performance[t].average_execution_time.num * Len(SuccessfulCalls(t))
                = TotalTime(SuccessfulCalls(t))
                      * tool_performance[t].average_execution_time.den

\* --------------------------------------------- claims, cache manager, expiry

\* C26: a value stored by set(key, value, ttl, level) is never returned by a
\* get of that key issued more than ttl seconds after that set, with no later
\* set of the key by the caller, even if in between a get found it in the
\* other tier and promoted it into the requested tier.
C26_NeverReturnedAfterItsTTL ==
    [][(/\ hit_count' + miss_count' = hit_count + miss_count + 1
        /\ last_get'.returned # Missing
        /\ last_get'.key \in DOMAIN last_set
        /\ last_get'.returned = last_set[last_get'.key].value)
            => mgr_now - last_set[last_get'.key].at <= last_set[last_get'.key].ttl]_vars

\* ------------------------------------------ claims, integration of tool results

\* the tools whose execute returned a result record with status "error"
ReturnedErrorStatus ==
    {t \in DefaultTools : execution_results[t].held /\ execution_results[t].status = "error"}

\* C27: a tool whose execute call returns a result record with status "error"
\* instead of raising, on the first attempt or on a retry, is reported under
\* failed_tools, not under individual_results, in the integrated result, and
\* is not counted as successful in the integration confidence.
C27_ErrorStatusIsReportedAsFailure ==
    integ_pc = "done" =>
        /\ \A t \in ReturnedErrorStatus :
               t \in integrated.failed_tools /\ t \notin integrated.individual_results
        /\ integrated.confidence =
               calculate_integration_confidence(
                   integrated.individual_results \ ReturnedErrorStatus,
                   integrated.failed_tools \cup ReturnedErrorStatus)

\* -------------------------------------------- claims, scheduler, improvement

\* C28: when the quality controller's action is improve, the Scheduler
\* re-executes the pipeline on the same question text the caller passed to
\* process_question, so the result returned is an answer to that question.
C28_ImprovementReexecutesTheQuestion ==
    (sched_pc \in {"learn", "done"} /\ improved) => pipeline_question = asked_question

\* the stage list of the route process_question worked with
RouteStages == stage_lists[processing_route.stages]

\* C29: when the improvement strategy contains fact_verification or
\* enhancement, the stage name the Scheduler appends (additional_fact_check or
\* information_gathering) is not a registered pipeline stage, so the
\* re-executed pipeline records an unknown-stage error and the result
\* process_question returns has success false.
C29_AppendedStageIsUnknown ==
    (/\ sched_pc = "done"
     /\ improved
     /\ improvement_action.strategy \cap {"fact_verification", "enhancement"} # {})
        => /\ "fact_verification" \in improvement_action.strategy
                  => /\ Contains(RouteStages, "additional_fact_check")
                     /\ "additional_fact_check" \notin stage_processors
           /\ "enhancement" \in improvement_action.strategy
                  => /\ Contains(RouteStages, "information_gathering")
                     /\ "information_gathering" \notin stage_processors
           /\ ~final_result.success

C29_Witness ==
    /\ sched_pc = "done"
    /\ improved
    /\ raised_in = None
    /\ improvement_action.strategy = {"enhancement"}
    /\ initial_result.success
    /\ Contains(RouteStages, "information_gathering")
    /\ ~final_result.success

\* ------------------------------------------------ claims, performance monitor

\* the tasks inside the monitoring loop: they have passed the while test and
\* will test it again when their sleep is over
LoopsAlive == {i \in DOMAIN loops : loops[i] = "sleeping"}

\* C30: for any sequence of start_monitoring and stop_monitoring calls, at
\* most one background monitoring loop is alive at a time: neither two calls
\* of start_monitoring, nor stop_monitoring followed by start_monitoring while
\* the earlier loop is still sleeping, leave two loops updating
\* current_status.
C30_AtMostOneMonitoringLoop == Cardinality(LoopsAlive) <= 1
====
